---- MODULE Spec2Model ----
(***************************************************************************)
(* A model of the Stones-and-Rivers decision engine of                     *)
(* src/client_server/temp2.cpp (StudentAgent) and of the opening book of   *)
(* src/client_server/temp.cpp.                                             *)
(*                                                                         *)
(* Conventions.  A position is <<x, y>>; a board is the vector of rows of  *)
(* the C++ code, 1-based: board[y + 1][x + 1] is the C++ board[y][x],      *)
(* written At(board, x, y).  A Cell is a record of three strings, ""       *)
(* standing for the empty std::string.  A move is a record whose fields are the keys of the *)
(* C++ unordered_map (a key that is absent in the C++ map is absent from   *)
(* the record); coordinates are kept as integers, std::to_string and       *)
(* std::stoi being inverse on the small non-negative integers used.        *)
(***************************************************************************)
EXTENDS Integers, Sequences, FiniteSets, TLC

\* ------------------------------------------------------------------ sizes
\* The board of the game ("Small: 13x12"): 13 rows, 12 columns.
Rows == 13
Cols == 12

\* ------------------------------------------------------- utility structures
Position(x, y) == <<x, y>>

\* Cell(): owner(""), side(""), orientation("")
EmptyCell == [owner |-> "", side |-> "", orientation |-> ""]

isEmpty(cell) == cell.owner = ""

AllPos == {Position(x, y) : x \in 0..(Cols - 1), y \in 0..(Rows - 1)}

EmptyBoard == [r \in 1..Rows |-> [c \in 1..Cols |-> EmptyCell]]

\* board[y][x]
At(board, x, y) == board[y + 1][x + 1]

\* An assignment through a whole row instead of one cell.
PutThroughRow(board, x, y, cell) ==
    [board EXCEPT ![y + 1] = [c \in 1..Cols |-> cell]]

\* board with board[y][x] = cell
Put(board, x, y, cell) == [board EXCEPT ![y + 1][x + 1] = cell]

Players == {"circle", "square"}

\* ---------------------------------------------------------- utility functions
in_bounds(x, y) == x >= 0 /\ x < Cols /\ y >= 0 /\ y < Rows

Max(a, b) == IF a >= b THEN a ELSE b
Min(a, b) == IF a <= b THEN a ELSE b
Abs(a) == IF a >= 0 THEN a ELSE -a

\* score_cols_for(cols): the band of w = 4 columns from max(0, (cols - w) / 2)
score_cols_for(cols) ==
    LET w == 4
        start == Max(0, (cols - w) \div 2)
    IN  [i \in 1..w |-> start + i - 1]

\* The score columns the game engine hands to choose.
ScoreCols == score_cols_for(Cols)

SeqToSet(s) == {s[i] : i \in 1..Len(s)}

top_score_row == 2

bottom_score_row == Rows - 3

get_opponent(player) == IF player = "circle" THEN "square" ELSE "circle"

is_opponent_score_cell(x, y, player) ==
    LET target_row == IF player = "circle" THEN bottom_score_row ELSE top_score_row
    IN  IF y # target_row THEN FALSE ELSE x \in SeqToSet(ScoreCols)

is_my_score_cell(x, y, player) ==
    LET target_row == IF player = "circle" THEN top_score_row ELSE bottom_score_row
    IN  IF y # target_row THEN FALSE ELSE x \in SeqToSet(ScoreCols)

get_win_count(board_size) ==
    IF board_size = 15 THEN 5 ELSE IF board_size = 17 THEN 6 ELSE 4

\* --------------------------------------------------- river flow computation
\* The inner "while (in_bounds(nx, ny))" walk of one flow direction, from
\* its first cell (nx, ny).  The walk goes on over a cell that is in bounds,
\* is no score cell of the opponent, and is empty or the cell (sx, sy); it
\* ends at the first cell that is otherwise.  WalkLength is the number of
\* cells the walk goes on over: the index of the first cell, counted from 0,
\* at which it ends (the cell MaxWalk steps on is out of bounds).
MaxWalk == IF Rows > Cols THEN Rows ELSE Cols

\* The inner while without "if (nx == sx && ny == sy) { ...; continue; }": the
\* mover's cell ends the direction as any other occupied cell does.
WalkLengthOpaque(board, nx, ny, dx, dy, sx, sy, player) ==
    LET ends(k) ==
            ~(/\ in_bounds(nx + k * dx, ny + k * dy)
              /\ ~is_opponent_score_cell(nx + k * dx, ny + k * dy, player)
              /\ isEmpty(At(board, nx + k * dx, ny + k * dy)))
    IN  Head(SelectSeq([k \in 1..(MaxWalk + 1) |-> k - 1], ends))

WalkLength(board, nx, ny, dx, dy, sx, sy, player) ==
    LET ends(k) ==
            ~(/\ in_bounds(nx + k * dx, ny + k * dy)
              /\ ~is_opponent_score_cell(nx + k * dx, ny + k * dy, player)
              /\ (isEmpty(At(board, nx + k * dx, ny + k * dy))
                  \/ (nx + k * dx = sx /\ ny + k * dy = sy)))
    IN  Head(SelectSeq([k \in 1..(MaxWalk + 1) |-> k - 1], ends))

\* The walk yields the landing cells pushed onto destinations, in order (the
\* empty cells walked over), and the river cell pushed onto the queue (the
\* cell it ends at, if a river).
FlowWalk(board, nx, ny, dx, dy, sx, sy, player) ==
    LET cell_at(k) == Position(nx + k * dx, ny + k * dy)
        empty(q) == isEmpty(At(board, q[1], q[2]))
        river(q) ==
            /\ in_bounds(q[1], q[2])
            /\ ~is_opponent_score_cell(q[1], q[2], player)
            /\ At(board, q[1], q[2]).side = "river"
        Walked(n) ==
            [k \in 1..(n + 1) |-> cell_at(k - 1)]
        EndsAt(cells) ==
            [dests |-> SelectSeq(SubSeq(cells, 1, Len(cells) - 1), empty),
             enq |-> SelectSeq(SubSeq(cells, Len(cells), Len(cells)), river)]
    IN  EndsAt(Walked(WalkLength(board, nx, ny, dx, dy, sx, sy, player)))

\* One iteration of "while (!queue.empty())": pops the front of the queue.
\* fs = [queue, visited, destinations].
FlowIter(board, rx, ry, sx, sy, player, river_push, fs) ==
    LET pos  == Head(fs.queue)
        rest == Tail(fs.queue)
        vis  == fs.visited \cup {pos}
        Merge(w1, w2) ==
            [queue |-> rest \o w1.enq \o w2.enq,
             visited |-> vis,
             destinations |-> fs.destinations \o w1.dests \o w2.dests]
        Walks(dirs) ==
            Merge(FlowWalk(board, pos[1] + dirs[1][1], pos[2] + dirs[1][2],
                           dirs[1][1], dirs[1][2], sx, sy, player),
                  FlowWalk(board, pos[1] + dirs[2][1], pos[2] + dirs[2][2],
                           dirs[2][1], dirs[2][2], sx, sy, player))
    IN  IF pos \in fs.visited \/ ~in_bounds(pos[1], pos[2])
        THEN [fs EXCEPT !.queue = rest]
        ELSE
        LET cell == IF river_push /\ pos[1] = rx /\ pos[2] = ry
                    THEN At(board, sx, sy)
                    ELSE At(board, pos[1], pos[2])
        IN  IF isEmpty(cell)
            THEN IF ~is_opponent_score_cell(pos[1], pos[2], player)
                 THEN [queue |-> rest, visited |-> vis,
                       destinations |-> Append(fs.destinations, pos)]
                 ELSE [queue |-> rest, visited |-> vis,
                       destinations |-> fs.destinations]
            ELSE IF cell.side # "river"
            THEN [queue |-> rest, visited |-> vis, destinations |-> fs.destinations]
            ELSE Walks(IF cell.orientation = "horizontal"
                       THEN << <<1, 0>>, <<-1, 0>> >>
                       ELSE << <<0, 1>>, <<0, -1>> >>)

\* queue.push_back(Position(rx, ry)) with empty visited and destinations
FlowStart(rx, ry) ==
    [queue |-> <<Position(rx, ry)>>, visited |-> {}, destinations |-> <<>>]

\* get_river_flow_destinations returning `destinations` as collected, without
\* the "Remove duplicates" pass.
RemoveDuplicatesOmitted(destinations) == destinations

\* "Remove duplicates": out keeps the first occurrence of each position.
RemoveDuplicates(destinations) ==
    LET first(i) == \A j \in 1..(i - 1) : destinations[j] # destinations[i]
        kept == SelectSeq([i \in 1..Len(destinations) |-> i], first)
    IN  [k \in 1..Len(kept) |-> destinations[kept[k]]]

\* "while (!queue.empty())", at most n iterations of it: one iteration, then
\* the two halves of the n - 1 left, which keeps the depth of the evaluation
\* logarithmic in n.
RECURSIVE FlowLoop(_, _, _, _, _, _, _, _, _)
FlowLoop(board, rx, ry, sx, sy, player, river_push, fs, n) ==
    CASE fs.queue = <<>> -> fs
      [] n = 0 -> fs
      [] OTHER ->
         FlowLoop(board, rx, ry, sx, sy, player, river_push,
                  FlowLoop(board, rx, ry, sx, sy, player, river_push,
                           FlowIter(board, rx, ry, sx, sy, player, river_push, fs),
                           (n - 1) \div 2),
                  (n - 1) - ((n - 1) \div 2))

\* Every cell is visited at most once and a visit enqueues at most two cells,
\* so the queue is empty after at most 1 + 2 * Rows * Cols iterations.
FlowFuel == 1 + 2 * Rows * Cols

get_river_flow_destinations(board, rx, ry, sx, sy, player, river_push) ==
    RemoveDuplicates(
        FlowLoop(board, rx, ry, sx, sy, player, river_push, FlowStart(rx, ry),
                 FlowFuel).destinations)

\* ----------------------------------------------------------- BFS pathfinding
\* std::numeric_limits<double>::infinity() as a distance: larger than every
\* finite distance of the board.
Infinity == 1000000

\* PathResult(): distance infinity, empty path
NoPath == [distance |-> Infinity, path |-> <<>>]

PathResult(d, p) == [distance |-> d, path |-> p]

Dirs4 == << <<1, 0>>, <<-1, 0>>, <<0, 1>>, <<0, -1>> >>

\* The flow loop body counting the river cell as a hop of its own: a landing
\* cell is two hops from the node.
BfsFlowBodyCountsRiver(flow_pos, node, new_path, goal_cells, bs) ==
    IF flow_pos \in bs.visited THEN bs
    ELSE IF flow_pos \in SeqToSet(goal_cells)
    THEN [bs EXCEPT !.found = TRUE,
                    !.result = PathResult(node.dist + 2, Append(new_path, flow_pos))]
    ELSE [bs EXCEPT !.visited = @ \cup {flow_pos},
                    !.queue = Append(@, [pos |-> flow_pos,
                                         dist |-> node.dist + 2,
                                         path |-> Append(new_path, flow_pos)])]

\* The body of "for (const auto& flow_pos : flow_dests)" of one river
\* neighbour.  bs = [queue, visited, found, result].
BfsFlowBody(flow_pos, node, new_path, goal_cells, bs) ==
    IF flow_pos \in bs.visited THEN bs
    ELSE IF flow_pos \in SeqToSet(goal_cells)
    THEN [bs EXCEPT !.found = TRUE,
                    !.result = PathResult(node.dist + 1, Append(new_path, flow_pos))]
    ELSE [bs EXCEPT !.visited = @ \cup {flow_pos},
                    !.queue = Append(@, [pos |-> flow_pos,
                                         dist |-> node.dist + 1,
                                         path |-> Append(new_path, flow_pos)])]

\* The iterations lo..hi of that loop, in order, until the goal is found.
RECURSIVE BfsFlow(_, _, _, _, _, _, _)
BfsFlow(flow_dests, lo, hi, node, new_path, goal_cells, bs) ==
    CASE bs.found -> bs
      [] lo > hi -> bs
      [] lo = hi -> BfsFlowBody(flow_dests[lo], node, new_path, goal_cells, bs)
      [] OTHER ->
         BfsFlow(flow_dests, (lo + hi) \div 2 + 1, hi, node, new_path, goal_cells,
                 BfsFlow(flow_dests, lo, (lo + hi) \div 2, node, new_path,
                         goal_cells, bs))

\* The body of "for (auto [dx, dy] : dirs)" for direction d of node.
BfsDir(board, d, node, goal_cells, player, use_rivers, bs) ==
    LET nx == node.pos[1] + Dirs4[d][1]
        ny == node.pos[2] + Dirs4[d][2]
        next_pos == Position(nx, ny)
        Flow(flow_dests) ==
            BfsFlow(flow_dests, 1, Len(flow_dests), node,
                    Append(node.path, next_pos), goal_cells, bs)
    IN  IF ~in_bounds(nx, ny) THEN bs
        ELSE IF next_pos \in bs.visited THEN bs
        ELSE IF is_opponent_score_cell(nx, ny, player) THEN bs
        ELSE
        LET cell == At(board, nx, ny)
            new_path == Append(node.path, next_pos)
        IN  IF isEmpty(cell)
            THEN IF next_pos \in SeqToSet(goal_cells)
                 THEN [bs EXCEPT !.found = TRUE,
                                 !.result = PathResult(node.dist + 1, new_path)]
                 ELSE [bs EXCEPT !.visited = @ \cup {next_pos},
                                 !.queue = Append(@, [pos |-> next_pos,
                                                      dist |-> node.dist + 1,
                                                      path |-> new_path])]
            ELSE IF use_rivers /\ cell.side = "river"
            THEN Flow(get_river_flow_destinations(board, nx, ny, node.pos[1],
                                                  node.pos[2], player, FALSE))
            ELSE bs

RECURSIVE BfsDirs(_, _, _, _, _, _, _)
BfsDirs(board, d, node, goal_cells, player, use_rivers, bs) ==
    CASE bs.found -> bs
      [] d > 4 -> bs
      [] OTHER ->
         BfsDirs(board, d + 1, node, goal_cells, player, use_rivers,
                 BfsDir(board, d, node, goal_cells, player, use_rivers, bs))

\* One iteration of "while (!queue.empty())": pops a node and expands its
\* four neighbours.
BfsIter(board, goal_cells, player, use_rivers, bs) ==
    BfsDirs(board, 1, Head(bs.queue), goal_cells, player, use_rivers,
            [bs EXCEPT !.queue = Tail(@)])

\* At most n iterations of the loop: one iteration, then the two halves of
\* the n - 1 left.
RECURSIVE BfsLoop(_, _, _, _, _, _)
BfsLoop(board, goal_cells, player, use_rivers, bs, n) ==
    CASE bs.found -> bs
      [] bs.queue = <<>> -> bs
      [] n = 0 -> bs
      [] OTHER ->
         BfsLoop(board, goal_cells, player, use_rivers,
                 BfsLoop(board, goal_cells, player, use_rivers,
                         BfsIter(board, goal_cells, player, use_rivers, bs),
                         (n - 1) \div 2),
                 (n - 1) - ((n - 1) \div 2))

\* A cell enters the queue only when it enters visited, so the loop pops at
\* most Rows * Cols nodes.
BfsFuel == Rows * Cols

\* bfs_distance_to_goals without the "Check if already at goal" loop.
bfs_distance_to_goals_unchecked_start(board, start_x, start_y, goal_cells, player, use_rivers) ==
    BfsLoop(board, goal_cells, player, use_rivers,
            [queue |-> << [pos |-> Position(start_x, start_y), dist |-> 0,
                           path |-> <<Position(start_x, start_y)>>] >>,
             visited |-> {Position(start_x, start_y)}, found |-> FALSE,
             result |-> NoPath],
            BfsFuel).result

bfs_distance_to_goals(board, start_x, start_y, goal_cells, player, use_rivers) ==
    LET start == Position(start_x, start_y) IN
    IF start \in SeqToSet(goal_cells)
    THEN PathResult(0, <<start>>)
    ELSE BfsLoop(board, goal_cells, player, use_rivers,
                 [queue |-> << [pos |-> start, dist |-> 0, path |-> <<start>>] >>,
                  visited |-> {start}, found |-> FALSE, result |-> NoPath],
                 BfsFuel).result

\* make_bfs_key: "sx,sy:R1|R0:player:gx,gy;..." as the tuple of its parts.
make_bfs_key(sx, sy, goals, use_rivers, player) ==
    <<sx, sy, use_rivers, player, goals>>

\* GLOBAL_BFS_CACHE after clear(): the map with no key.
EmptyCache == <<>>

CacheHas(cache, key) == key \in DOMAIN cache

\* bfs_distance_to_goals_cached: the result and the cache it leaves.
bfs_distance_to_goals_cached(cache, board, start_x, start_y, goal_cells, player, use_rivers) ==
    LET key == make_bfs_key(start_x, start_y, goal_cells, use_rivers, player)
        Store(res) == [res |-> res, cache |-> (key :> res) @@ cache]
    IN  IF CacheHas(cache, key)
        THEN [res |-> cache[key], cache |-> cache]
        ELSE Store(bfs_distance_to_goals(board, start_x, start_y, goal_cells,
                                         player, use_rivers))

\* ------------------------------------------------------------ move generator
MoveTo(x, y, t) ==
    [action |-> "move", from_x |-> x, from_y |-> y, to_x |-> t[1], to_y |-> t[2]]

\* A push that records the pushed piece's own cell as its landing cell.
PushToInPlace(x, y, to_pos, pushed_pos) ==
    [action |-> "push", from_x |-> x, from_y |-> y,
     to_x |-> to_pos[1], to_y |-> to_pos[2],
     pushed_x |-> to_pos[1], pushed_y |-> to_pos[2]]

PushTo(x, y, to_pos, pushed_pos) ==
    [action |-> "push", from_x |-> x, from_y |-> y,
     to_x |-> to_pos[1], to_y |-> to_pos[2],
     pushed_x |-> pushed_pos[1], pushed_y |-> pushed_pos[2]]

\* The flip of a stone written without the orientation of the river it makes.
FlipToBare(x, y, orient) ==
    [action |-> "flip", from_x |-> x, from_y |-> y, orientation |-> ""]

FlipTo(x, y, orient) ==
    [action |-> "flip", from_x |-> x, from_y |-> y, orientation |-> orient]

\* The flip of a river written with an orientation, as the flip of a stone is.
FlipBackOriented(x, y) ==
    [action |-> "flip", from_x |-> x, from_y |-> y, orientation |-> "horizontal"]

FlipBack(x, y) == [action |-> "flip", from_x |-> x, from_y |-> y]

Rotate(x, y) == [action |-> "rotate", from_x |-> x, from_y |-> y]

\* MoveTargetsDir without the river branch: single steps only.
MoveTargetsDirNoFlow(board, x, y, d, current_player) ==
    LET tx == x + Dirs4[d][1]
        ty == y + Dirs4[d][2]
    IN  IF ~in_bounds(tx, ty) THEN <<>>
        ELSE IF is_opponent_score_cell(tx, ty, current_player) THEN <<>>
        ELSE IF isEmpty(At(board, tx, ty)) THEN <<Position(tx, ty)>>
        ELSE <<>>

\* MoveTargetsDir without the test "is_opponent_score_cell(tx, ty, ...)".
MoveTargetsDirUnchecked(board, x, y, d, current_player) ==
    LET tx == x + Dirs4[d][1]
        ty == y + Dirs4[d][2]
    IN  IF ~in_bounds(tx, ty) THEN <<>>
        ELSE LET target == At(board, tx, ty) IN
             IF isEmpty(target) THEN <<Position(tx, ty)>>
             ELSE IF target.side = "river"
             THEN get_river_flow_destinations(board, tx, ty, x, y, current_player, FALSE)
             ELSE <<>>

\* The move targets direction d adds for the piece at (x, y).
MoveTargetsDir(board, x, y, d, current_player) ==
    LET tx == x + Dirs4[d][1]
        ty == y + Dirs4[d][2]
    IN  IF ~in_bounds(tx, ty) THEN <<>>
        ELSE IF is_opponent_score_cell(tx, ty, current_player) THEN <<>>
        ELSE LET target == At(board, tx, ty) IN
             IF isEmpty(target) THEN <<Position(tx, ty)>>
             ELSE IF target.side = "river"
             THEN get_river_flow_destinations(board, tx, ty, x, y, current_player, FALSE)
             ELSE <<>>

\* The push targets <<to_pos, pushed_pos>> direction d adds for the piece at (x, y).
PushTargetsDir(board, x, y, d, current_player) ==
    LET dx == Dirs4[d][1]
        dy == Dirs4[d][2]
        tx == x + dx
        ty == y + dy
        p  == At(board, x, y)
        ok(dd) == ~is_opponent_score_cell(dd[1], dd[2], current_player)
        Pairs(kept) == [i \in 1..Len(kept) |-> <<Position(tx, ty), kept[i]>>]
    IN  IF ~in_bounds(tx, ty) THEN <<>>
        ELSE IF is_opponent_score_cell(tx, ty, current_player) THEN <<>>
        ELSE LET target == At(board, tx, ty) IN
             IF isEmpty(target) THEN <<>>
             ELSE IF target.side = "river" THEN <<>>
             ELSE IF p.side = "stone"
             THEN LET px == tx + dx
                      py == ty + dy
                      pushed_player == target.owner
                  IN  IF in_bounds(px, py) /\ isEmpty(At(board, px, py))
                         /\ ~is_opponent_score_cell(px, py, p.owner)
                         /\ ~is_opponent_score_cell(px, py, pushed_player)
                      THEN << <<Position(tx, ty), Position(px, py)>> >>
                      ELSE <<>>
             ELSE Pairs(SelectSeq(get_river_flow_destinations(board, tx, ty, x, y,
                                                              target.owner, TRUE),
                                  ok))

\* The moves generated for the piece at (x, y): moves, pushes, flips, rotate.
PieceMoves(board, x, y, current_player) ==
    LET p == At(board, x, y)
        AllDirs(t) == t[1] \o t[2] \o t[3] \o t[4]
        Moves(move_targets) ==
            [i \in 1..Len(move_targets) |-> MoveTo(x, y, move_targets[i])]
        Pushes(push_targets) ==
            [i \in 1..Len(push_targets) |->
                PushTo(x, y, push_targets[i][1], push_targets[i][2])]
    IN  Moves(AllDirs([d \in 1..4 |-> MoveTargetsDir(board, x, y, d, current_player)]))
        \o Pushes(AllDirs([d \in 1..4 |->
                              PushTargetsDir(board, x, y, d, current_player)]))
        \o (IF p.side = "stone"
            THEN <<FlipTo(x, y, "horizontal"), FlipTo(x, y, "vertical")>>
            ELSE <<FlipBack(x, y), Rotate(x, y)>>)

\* The cells in the order of the scan "for y ... for x ...".
ScanOrder == [k \in 1..(Rows * Cols) |-> Position((k - 1) % Cols, (k - 1) \div Cols)]

\* The cells the scan finds owned by current_player, in scan order.
OwnedCells(board, current_player) ==
    LET mine(q) == ~isEmpty(At(board, q[1], q[2]))
                   /\ At(board, q[1], q[2]).owner = current_player
    IN  SelectSeq(ScanOrder, mine)

RECURSIVE GenFrom(_, _, _, _)
GenFrom(board, current_player, cells, i) ==
    IF i > Len(cells) THEN <<>>
    ELSE PieceMoves(board, cells[i][1], cells[i][2], current_player)
         \o GenFrom(board, current_player, cells, i + 1)

generate_all_valid_moves(board, current_player) ==
    GenFrom(board, current_player, OwnedCells(board, current_player), 1)

\* ------------------------------------------------------------------ apply_move
\* apply_move with the "GLOBAL_BFS_CACHE.clear()" of the rotate branch left
\* out; the other branches as they are.
apply_move_rotate_keeps(board, move, cache) ==
    LET from_x == move.from_x
        from_y == move.from_y
        piece == At(board, from_x, from_y)
    IN
    IF move.action = "move"
    THEN [board |-> Put(Put(board, move.to_x, move.to_y, piece),
                        from_x, from_y, EmptyCell),
          cache |-> cache]
    ELSE IF move.action = "push"
    THEN LET b3 == Put(Put(Put(board, move.pushed_x, move.pushed_y,
                               At(board, move.to_x, move.to_y)),
                           move.to_x, move.to_y, piece),
                       from_x, from_y, EmptyCell)
         IN  IF piece.side = "river"
             THEN [board |-> Put(b3, move.to_x, move.to_y,
                                 [piece EXCEPT !.side = "stone", !.orientation = ""]),
                   cache |-> EmptyCache]
             ELSE [board |-> b3, cache |-> cache]
    ELSE IF move.action = "flip"
    THEN [board |-> IF piece.side = "stone"
                    THEN Put(board, from_x, from_y,
                             [piece EXCEPT !.side = "river",
                                           !.orientation = move.orientation])
                    ELSE Put(board, from_x, from_y,
                             [piece EXCEPT !.side = "stone", !.orientation = ""]),
          cache |-> EmptyCache]
    ELSE IF move.action = "rotate"
    THEN [board |-> Put(board, from_x, from_y,
                        [piece EXCEPT !.orientation =
                            IF @ = "horizontal" THEN "vertical" ELSE "horizontal"]),
          cache |-> cache]
    ELSE [board |-> board, cache |-> cache]

\* apply_move returns the new board; its side effect on GLOBAL_BFS_CACHE is
\* returned with it.
apply_move(board, move, cache) ==
    LET from_x == move.from_x
        from_y == move.from_y
    IN
    IF move.action = "move"
    THEN LET b1 == Put(board, move.to_x, move.to_y, At(board, from_x, from_y))
             b2 == Put(b1, from_x, from_y, EmptyCell)
         IN  [board |-> b2, cache |-> cache]
    ELSE IF move.action = "push"
    THEN LET to_x == move.to_x
             to_y == move.to_y
             b1 == Put(board, move.pushed_x, move.pushed_y, At(board, to_x, to_y))
             b2 == Put(b1, to_x, to_y, At(b1, from_x, from_y))
             b3 == Put(b2, from_x, from_y, EmptyCell)
         IN  IF At(b3, to_x, to_y).side = "river"
             THEN [board |-> Put(b3, to_x, to_y,
                                 [At(b3, to_x, to_y) EXCEPT !.side = "stone",
                                                            !.orientation = ""]),
                   cache |-> EmptyCache]
             ELSE [board |-> b3, cache |-> cache]
    ELSE IF move.action = "flip"
    THEN [board |-> IF At(board, from_x, from_y).side = "stone"
                    THEN Put(board, from_x, from_y,
                             [At(board, from_x, from_y) EXCEPT
                                 !.side = "river", !.orientation = move.orientation])
                    ELSE Put(board, from_x, from_y,
                             [At(board, from_x, from_y) EXCEPT
                                 !.side = "stone", !.orientation = ""]),
          cache |-> EmptyCache]
    ELSE IF move.action = "rotate"
    THEN [board |-> IF At(board, from_x, from_y).orientation = "horizontal"
                    THEN Put(board, from_x, from_y,
                             [At(board, from_x, from_y) EXCEPT !.orientation = "vertical"])
                    ELSE Put(board, from_x, from_y,
                             [At(board, from_x, from_y) EXCEPT !.orientation = "horizontal"]),
          cache |-> EmptyCache]
    ELSE [board |-> board, cache |-> cache]

\* ------------------------------------------------------------ learned weights
\* Each weight of learned_weights.h times 10^10 (its ten decimals, exactly).
MY_SCORING_STONES == 887904763
OPP_SCORING_STONES == 999981612
MY_MIN_DISTANCE == 868278444
MY_PROXIMITY_SCORE == 763051361
MY_STONES_WITHIN_2 == 1089616120
MY_STONES_WITHIN_4 == 923513696
MY_STONES_WITHIN_6 == 1032099500
MY_STONES_WITHIN_1_ROWS == 1019953862
OPP_MIN_DISTANCE == 1020607948
OPP_PROXIMITY_SCORE == 606093593
OPP_STONES_WITHIN_2 == 787663907
OPP_STONES_WITHIN_4 == 813723952
OPP_STONES_WITHIN_6 == 1063645780
MY_RIVER_COUNT == 576938763
MY_RIVERS_HORIZONTAL == 836545005
MY_RIVERS_NEAR_GOAL == 812201947
RIVERS_NEAR_US == 850072652
MY_RIVERS_VERTICAL == 791918263
OPP_RIVER_COUNT == 769866705
OPP_RIVERS_NEAR_GOAL == 683374256
MY_BLOCKING_PIECES == 379655324
OPP_STONES_BLOCKED == 788687617
ADVANCEMENT_DIFF == 479859263
MY_ADVANCEMENT == 628373772
OPP_ADVANCEMENT == 429718792
MY_CLEAR_PATHS_TO_GOAL == 739082694

\* ------------------------------------------------------------------ scores
\* A score (a C++ double) is held in units of 100: every bonus and constant
\* of the code is a whole number of units.  A weighted feature term
\* f * weight * 10^k is rounded down to a whole unit.  WMul(f, w, k), with
\* w = weight * 10^10, is floor(f * w / 10^(12 - k)), computed in pieces
\* that stay within 32 bits for |f| <= 10^5 and 3 <= k <= 7.
Pow10(n) == IF n = 0 THEN 1 ELSE IF n = 1 THEN 10 ELSE IF n = 2 THEN 100
            ELSE IF n = 3 THEN 1000 ELSE 10000

WMul(f, w, k) ==
    LET hi  == w \div 100000
        l1  == (w % 100000) \div 1000
        l0  == w % 1000
        low == (f * l1 + (f * l0) \div 1000) \div 100
    IN  (f * hi + low) \div Pow10(7 - k)

\* WIN_SCORE = 1e9 and LOSE_SCORE = -1e8 of temp2.cpp, in units of 100
WIN_SCORE == 10000000
LOSE_SCORE == -1000000

\* ----------------------------------------------------------------- goal cells
get_my_goal_cells(player) ==
    LET goal_row == IF player = "circle" THEN top_score_row ELSE bottom_score_row
    IN  [i \in 1..Len(ScoreCols) |-> Position(ScoreCols[i], goal_row)]

get_opponent_goal_cells(player) ==
    LET goal_row == IF player = "circle" THEN bottom_score_row ELSE top_score_row
    IN  [i \in 1..Len(ScoreCols) |-> Position(ScoreCols[i], goal_row)]

\* ------------------------------------------------------------- evaluate_board
Count(S) == Cardinality(S)

\* The number of stones of `owner` on the score columns of row `row`.
ScoringStones(board, owner, row) ==
    Count({i \in 1..Len(ScoreCols) :
              LET c == At(board, ScoreCols[i], row)
              IN  ~isEmpty(c) /\ c.owner = owner /\ c.side = "stone"})

\* The non-empty cells in scan order (the main board scan skips the others:
\* an empty cell has side "").
OccupiedCells(board) ==
    LET occ(q) == At(board, q[1], q[2]).side # "" IN SelectSeq(ScanOrder, occ)

Cube(n) == n * n * n

\* The features the main board scan accumulates, before the first cell.
\* Amounts of my_proximity_score are held in thousands, amounts of
\* opp_proximity_score in units of 500.  next is the index of the cell the
\* scan visits next.
ScanStart(cache) ==
    [cache |-> cache, next |-> 1,
     my_stone_distances |-> <<>>, opp_stone_distances |-> <<>>,
     my_stones_within_2 |-> 0, my_stones_within_4 |-> 0, my_stones_within_6 |-> 0,
     opp_stones_within_2 |-> 0, opp_stones_within_4 |-> 0, opp_stones_within_6 |-> 0,
     my_stones_within_1_rows |-> 0,
     my_river_count |-> 0, opp_river_count |-> 0, my_rivers_near_goal |-> 0,
     rivers_near_us |-> 0, opp_rivers_near_goal |-> 0,
     my_rivers_horizontal |-> 0, my_rivers_vertical |-> 0,
     opp_stones_blocked |-> 0,
     my_proximity_score |-> 0, opp_proximity_score |-> 0,
     my_min_distance |-> 999, opp_min_distance |-> 999,
     my_advancement |-> 0, opp_advancement |-> 0]

\* The body of the main board scan for one of the agent's stones.
ScanMyStone(board, player, x, y, my_scoring_stones, a) ==
    LET my_goals == get_my_goal_cells(player)
        my_score_row == my_goals[1][2]
        row_dist == Abs(y - my_score_row)
        Tally(q) ==
            LET result == q.res
                d == result.distance
                a1 == [a EXCEPT
                         !.cache = q.cache,
                         !.my_stones_within_1_rows = IF row_dist <= 1 THEN @ + 1 ELSE @,
                         !.my_advancement = @ + Rows - row_dist]
            IN  IF d < Infinity
                THEN [a1 EXCEPT
                        !.my_stone_distances = Append(@, [x |-> x, y |-> y, dist |-> d,
                                                          path |-> result.path]),
                        !.my_min_distance = IF d < @ THEN d ELSE @,
                        !.my_stones_within_2 = IF d <= 2 THEN @ + 1 ELSE @,
                        !.my_stones_within_4 = IF d <= 4 THEN @ + 1 ELSE @,
                        !.my_stones_within_6 = IF d <= 6 THEN @ + 1 ELSE @,
                        !.my_proximity_score =
                            @ + Cube(25 - Min(d, 25))
                              + (IF d <= 2 THEN 2000 + my_scoring_stones * 500
                                 ELSE IF d <= 4 THEN 100 + my_scoring_stones * 50
                                 ELSE 0)
                              + (IF Len(result.path) > d + 1 THEN 200 ELSE 0)]
                ELSE a1
    IN  Tally(bfs_distance_to_goals_cached(a.cache, board, x, y, my_goals, player, TRUE))

\* The body of the main board scan for one of the opponent's stones.
ScanOppStone(board, player, x, y, a) ==
    LET opponent == get_opponent(player)
        opp_goals == get_opponent_goal_cells(player)
        opp_score_row == opp_goals[1][2]
        row_dist == Abs(y - opp_score_row)
        is_blocked == \E k \in 1..4 :
                         LET nx == x + Dirs4[k][1]
                             ny == y + Dirs4[k][2]
                         IN  /\ in_bounds(nx, ny)
                             /\ ~isEmpty(At(board, nx, ny))
                             /\ At(board, nx, ny).owner = player
        Tally(q) ==
            LET result == q.res
                d == result.distance
                a1 == [a EXCEPT
                         !.cache = q.cache,
                         !.opp_advancement = @ + Rows - row_dist,
                         !.opp_stones_blocked = IF is_blocked THEN @ + 1 ELSE @]
            IN  IF d < Infinity
                THEN [a1 EXCEPT
                        !.opp_stone_distances = Append(@, [x |-> x, y |-> y, dist |-> d,
                                                           path |-> result.path]),
                        !.opp_min_distance = IF d < @ THEN d ELSE @,
                        !.opp_stones_within_2 = IF d <= 2 THEN @ + 1 ELSE @,
                        !.opp_stones_within_4 = IF d <= 4 THEN @ + 1 ELSE @,
                        !.opp_stones_within_6 = IF d <= 6 THEN @ + 1 ELSE @,
                        !.opp_proximity_score =
                            @ + (20 - Min(d, 20)) * (20 - Min(d, 20))
                              - (IF d <= 2 THEN 160 ELSE IF d <= 4 THEN 60 ELSE 0)]
                ELSE a1
    IN  Tally(bfs_distance_to_goals_cached(a.cache, board, x, y, opp_goals, opponent,
                                          TRUE))

\* The stones of a list that lie within 2 columns and 2 rows of (x, y).
NearStones(stones, x, y) ==
    Count({i \in 1..Len(stones) :
              Abs(x - stones[i].x) <= 2 /\ Abs(y - stones[i].y) <= 2})

\* The body of the main board scan for a river.
ScanRiver(board, player, x, y, a) ==
    LET opponent == get_opponent(player)
        cell == At(board, x, y)
        my_score_row == get_my_goal_cells(player)[1][2]
        opp_score_row == get_opponent_goal_cells(player)[1][2]
    IN  IF cell.owner = player
        THEN [a EXCEPT
                !.my_river_count = @ + 1,
                !.my_rivers_near_goal = IF Abs(y - my_score_row) <= 3 THEN @ + 1 ELSE @,
                !.my_rivers_horizontal = IF cell.orientation = "horizontal"
                                         THEN @ + 1 ELSE @,
                !.my_rivers_vertical = IF cell.orientation = "vertical"
                                       THEN @ + 1 ELSE @,
                !.rivers_near_us =
                    @ + NearStones(a.my_stone_distances, x, y)
                      + Count({i \in 1..Len(a.opp_stone_distances) :
                                  Position(x, y) \in SeqToSet(a.opp_stone_distances[i].path)})
                      + (IF Abs(y - my_score_row) <= 3 THEN 1 ELSE 0)]
        ELSE IF cell.owner = opponent
        THEN [a EXCEPT
                !.opp_river_count = @ + 1,
                !.opp_rivers_near_goal = IF Abs(y - opp_score_row) <= 3 THEN @ + 1 ELSE @,
                !.rivers_near_us = @ + NearStones(a.my_stone_distances, x, y)]
        ELSE a

\* The body of the main board scan for the occupied cell (x, y).
ScanCell(board, player, x, y, my_scoring_stones, a) ==
    LET cell == At(board, x, y)
    IN  CASE cell.side = "stone" /\ cell.owner = player ->
                 ScanMyStone(board, player, x, y, my_scoring_stones, a)
          [] cell.side = "stone" /\ cell.owner = get_opponent(player) ->
                 ScanOppStone(board, player, x, y, a)
          [] cell.side = "river" -> ScanRiver(board, player, x, y, a)
          [] OTHER -> a

\* The main board scan over the occupied cells from the a.next-th on.
RECURSIVE MainBoardScan(_, _, _, _, _)
MainBoardScan(board, player, cells, my_scoring_stones, a) ==
    IF a.next > Len(cells) THEN a
    ELSE MainBoardScan(board, player, cells, my_scoring_stones,
             [ScanCell(board, player, cells[a.next][1], cells[a.next][2],
                       my_scoring_stones, a) EXCEPT !.next = @ + 1])

\* "Path diversity": the score columns that hold no piece of the opponent.
ClearPathsToGoal(board, player) ==
    Count({i \in 1..Len(ScoreCols) :
              ~\E y \in 0..(Rows - 1) :
                   /\ ~isEmpty(At(board, ScoreCols[i], y))
                   /\ At(board, ScoreCols[i], y).owner = get_opponent(player)})

\* "Blocking pieces": per score column, the walk from opp_score_row in steps
\* of `direction` until my_score_row or the edge of the board.
RECURSIVE BlockWalk(_, _, _, _, _, _)
BlockWalk(board, player, x, y, my_score_row, direction) ==
    IF ~(y # my_score_row /\ y >= 0 /\ y < Rows) THEN FALSE
    ELSE IF ~isEmpty(At(board, x, y)) /\ At(board, x, y).owner = player THEN TRUE
    ELSE BlockWalk(board, player, x, y + direction, my_score_row, direction)

BlockingPieces(board, player) ==
    LET direction == IF player = "circle" THEN 1 ELSE -1
        my_score_row == get_my_goal_cells(player)[1][2]
        opp_score_row == get_opponent_goal_cells(player)[1][2]
    IN  Count({i \in 1..Len(ScoreCols) :
                  BlockWalk(board, player, ScoreCols[i], opp_score_row,
                            my_score_row, direction)})

\* "Apply learned weights": the weighted sum of the features.
WeightedSum(a, my_scoring_stones, opp_scoring_stones, my_clear_paths_to_goal, my_blocking_pieces) ==
      WMul(my_scoring_stones, MY_SCORING_STONES, 7)
    - WMul(opp_scoring_stones, OPP_SCORING_STONES, 7)
    + WMul(a.my_stones_within_2, MY_STONES_WITHIN_2, 6)
    + WMul(a.my_stones_within_4, MY_STONES_WITHIN_4, 6)
    + WMul(a.my_stones_within_6, MY_STONES_WITHIN_6, 6)
    - WMul(a.opp_stones_within_2, OPP_STONES_WITHIN_2, 6)
    - WMul(a.opp_stones_within_4, OPP_STONES_WITHIN_4, 6)
    - WMul(a.opp_stones_within_6, OPP_STONES_WITHIN_6, 6)
    + WMul(a.my_proximity_score, MY_PROXIMITY_SCORE, 7)
    - WMul(5 * a.opp_proximity_score, OPP_PROXIMITY_SCORE, 6)
    - WMul(a.my_min_distance, MY_MIN_DISTANCE, 5)
    + WMul(a.opp_min_distance, OPP_MIN_DISTANCE, 5)
    + WMul(a.my_stones_within_1_rows, MY_STONES_WITHIN_1_ROWS, 5)
    + WMul(a.my_river_count, MY_RIVER_COUNT, 5)
    + WMul(a.my_rivers_near_goal, MY_RIVERS_NEAR_GOAL, 5)
    + WMul(a.rivers_near_us, RIVERS_NEAR_US, 5)
    + WMul(a.my_rivers_horizontal, MY_RIVERS_HORIZONTAL, 5)
    + WMul(a.my_rivers_vertical, MY_RIVERS_VERTICAL, 5)
    - WMul(a.opp_river_count, OPP_RIVER_COUNT, 5)
    - WMul(a.opp_rivers_near_goal, OPP_RIVERS_NEAR_GOAL, 5)
    + WMul(a.opp_stones_blocked, OPP_STONES_BLOCKED, 5)
    + WMul(my_blocking_pieces, MY_BLOCKING_PIECES, 5)
    + WMul(a.my_advancement, MY_ADVANCEMENT, 3)
    - WMul(a.opp_advancement, OPP_ADVANCEMENT, 3)
    + WMul(a.my_advancement - a.opp_advancement, ADVANCEMENT_DIFF, 3)
    + WMul(my_clear_paths_to_goal, MY_CLEAR_PATHS_TO_GOAL, 6)

\* The winning conditions with the opponent's tested first.
WinningConditionsLossFirst(my_scoring_stones, opp_scoring_stones) ==
    IF opp_scoring_stones >= get_win_count(Rows) THEN <<LOSE_SCORE>>
    ELSE IF my_scoring_stones >= get_win_count(Rows) THEN <<WIN_SCORE>>
    ELSE <<>>

\* "Winning conditions": the two early returns of evaluate_board, <<>> when
\* neither is taken.
WinningConditions(my_scoring_stones, opp_scoring_stones) ==
    IF my_scoring_stones >= get_win_count(Rows) THEN <<WIN_SCORE>>
    ELSE IF opp_scoring_stones >= get_win_count(Rows) THEN <<LOSE_SCORE>>
    ELSE <<>>

\* evaluate_board: the score from the side of `player` (the agent) and the
\* cache its pathfinding queries leave.
evaluate_board(cache, board, player) ==
    LET opponent == get_opponent(player)
        my_score_row == get_my_goal_cells(player)[1][2]
        opp_score_row == get_opponent_goal_cells(player)[1][2]
        my_scoring_stones == ScoringStones(board, player, my_score_row)
        opp_scoring_stones == ScoringStones(board, opponent, opp_score_row)
        early == WinningConditions(my_scoring_stones, opp_scoring_stones)
        Weigh(a) ==
            [cache |-> a.cache,
             score |-> WeightedSum(a, my_scoring_stones, opp_scoring_stones,
                                   ClearPathsToGoal(board, player),
                                   BlockingPieces(board, player))]
    IN  IF early # <<>>
        THEN [score |-> early[1], cache |-> cache]
        ELSE Weigh(MainBoardScan(board, player, OccupiedCells(board),
                                 my_scoring_stones, ScanStart(cache)))

\* ------------------------------------------------------------------ check_win
check_win(board) ==
    LET WIN_COUNT == get_win_count(Rows)
        ccount == ScoringStones(board, "circle", top_score_row)
        scount == ScoringStones(board, "square", bottom_score_row)
    IN  IF ccount >= WIN_COUNT THEN "circle"
        ELSE IF scount >= WIN_COUNT THEN "square"
        ELSE ""

\* ------------------------------------------------- doubles beyond the finite
\* The search and the root loop of choose handle +infinity, -infinity and
\* (from infinity - infinity) NaN.  Three numbers outside the range of any
\* finite score stand for them; every comparison with NaN is false.
PosInf == 2000000000
NegInf == -PosInf
NaN == 2147483647

IsFinite(a) == a # NaN /\ a # PosInf /\ a # NegInf

XLt(a, b) == a # NaN /\ b # NaN /\ a < b

XLe(a, b) == a # NaN /\ b # NaN /\ a <= b

\* std::max(a, b) is (a < b) ? b : a, and std::min(a, b) is (b < a) ? b : a
XMax(a, b) == IF XLt(a, b) THEN b ELSE a

XMin(a, b) == IF XLt(b, a) THEN b ELSE a

XNeg(a) == IF a = NaN THEN NaN ELSE -a

XAdd(a, b) ==
    IF a = NaN \/ b = NaN THEN NaN
    ELSE IF a = PosInf THEN (IF b = NegInf THEN NaN ELSE PosInf)
    ELSE IF a = NegInf THEN (IF b = PosInf THEN NaN ELSE NegInf)
    ELSE IF b = PosInf \/ b = NegInf THEN b
    ELSE a + b

XSub(a, b) == XAdd(a, XNeg(b))

\* a * k for a finite k > 0
XScale(a, k) == IF IsFinite(a) THEN a * k ELSE a

XCube(a) == IF IsFinite(a) THEN a * a * a ELSE a

XAbs(a) == IF a = NegInf THEN PosInf ELSE IF IsFinite(a) THEN Abs(a) ELSE a

\* The distance of a PathResult as a double.
DistX(d) == IF d = Infinity THEN PosInf ELSE d

\* -------------------------------------------------------------------- minimax
\* minimax for the agent `player`: the value and the cache left behind.
\* One node of the search.  cut_off says whether the "if (beta <= alpha)
\* break" of the two loops is there, as it is in minimax.
RECURSIVE MinimaxNode(_, _, _, _, _, _, _, _)
RECURSIVE MaxLoop(_, _, _, _, _, _, _, _)
RECURSIVE MinLoop(_, _, _, _, _, _, _, _)
MinimaxNode(cache, board, depth, alpha, beta, is_maximizing, player, cut_off) ==
    LET current_player == IF is_maximizing THEN player ELSE get_opponent(player)
        Result(ls) == [score |-> ls.eval, cache |-> ls.cache]
        Loop(moves) ==
            IF moves = <<>> THEN evaluate_board(cache, board, player)
            ELSE IF is_maximizing
            THEN Result(MaxLoop(board, moves, 1, Len(moves), depth, player, cut_off,
                                [eval |-> NegInf, alpha |-> alpha, beta |-> beta,
                                 cache |-> cache, broke |-> FALSE]))
            ELSE Result(MinLoop(board, moves, 1, Len(moves), depth, player, cut_off,
                                [eval |-> PosInf, alpha |-> alpha, beta |-> beta,
                                 cache |-> cache, broke |-> FALSE]))
    IN  IF depth = 0 \/ check_win(board) # ""
        THEN evaluate_board(cache, board, player)
        ELSE Loop(generate_all_valid_moves(board, current_player))

\* The body of "for (const auto& move : moves)" of the maximizing branch, from
\* the loop's variables ls.
MaxBody(board, move, depth, player, cut_off, ls) ==
    LET Step(r) ==
            [cache |-> r.cache,
             eval |-> XMax(ls.eval, r.score),
             alpha |-> XMax(ls.alpha, r.score),
             beta |-> ls.beta,
             broke |-> cut_off /\ XLe(ls.beta, XMax(ls.alpha, r.score))]
        Child(am) ==
            Step(MinimaxNode(am.cache, am.board, depth - 1, ls.alpha, ls.beta, FALSE,
                             player, cut_off))
    IN  Child(apply_move(board, move, ls.cache))

\* The same for the minimizing branch.
MinBody(board, move, depth, player, cut_off, ls) ==
    LET Step(r) ==
            [cache |-> r.cache,
             eval |-> XMin(ls.eval, r.score),
             alpha |-> ls.alpha,
             beta |-> XMin(ls.beta, r.score),
             broke |-> cut_off /\ XLe(XMin(ls.beta, r.score), ls.alpha)]
        Child(am) ==
            Step(MinimaxNode(am.cache, am.board, depth - 1, ls.alpha, ls.beta, TRUE,
                             player, cut_off))
    IN  Child(apply_move(board, move, ls.cache))

\* The iterations lo..hi of the loop, in order, until one breaks.
MaxLoop(board, moves, lo, hi, depth, player, cut_off, ls) ==
    CASE ls.broke -> ls
      [] lo = hi -> MaxBody(board, moves[lo], depth, player, cut_off, ls)
      [] OTHER ->
         MaxLoop(board, moves, (lo + hi) \div 2 + 1, hi, depth, player, cut_off,
                 MaxLoop(board, moves, lo, (lo + hi) \div 2, depth, player, cut_off,
                         ls))

MinLoop(board, moves, lo, hi, depth, player, cut_off, ls) ==
    CASE ls.broke -> ls
      [] lo = hi -> MinBody(board, moves[lo], depth, player, cut_off, ls)
      [] OTHER ->
         MinLoop(board, moves, (lo + hi) \div 2 + 1, hi, depth, player, cut_off,
                 MinLoop(board, moves, lo, (lo + hi) \div 2, depth, player, cut_off,
                         ls))

minimax(cache, board, depth, alpha, beta, is_maximizing, player) ==
    MinimaxNode(cache, board, depth, alpha, beta, is_maximizing, player, TRUE)

\* The reference of the pruning: the same search with both cut-offs removed.
ExhaustiveMinimax(cache, board, depth, alpha, beta, is_maximizing, player) ==
    MinimaxNode(cache, board, depth, alpha, beta, is_maximizing, player, FALSE)


\* ----------------------------------------------------- bfs_distance_with_flip
\* The cell (x, y) of the board copy turned into a river of orientation orient.
AsRiver(board, x, y, orient) ==
    Put(board, x, y, [At(board, x, y) EXCEPT !.side = "river", !.orientation = orient])

\* bfs_distance_with_flip with the two hypothetical boards searched afresh
\* instead of looked up under the key of the current board.
bfs_distance_with_flip_fresh(cache, board, start_x, start_y, goal_cells, player) ==
    LET piece == At(board, start_x, start_y)
        Fresh(orient) ==
            bfs_distance_to_goals(AsRiver(board, start_x, start_y, orient),
                                  start_x, start_y, goal_cells, player, TRUE).distance
        Best(cur, h, v) ==
            LET current_dist == cur.res.distance
                dist1 == IF h < current_dist THEN h ELSE current_dist
                orient1 == IF h < current_dist THEN "horizontal" ELSE "none"
            IN  IF v < dist1
                THEN [dist |-> v, orient |-> "vertical", cache |-> cur.cache]
                ELSE [dist |-> dist1, orient |-> orient1, cache |-> cur.cache]
        Flips(cur) ==
            IF piece.side = "stone"
            THEN Best(cur, Fresh("horizontal"), Fresh("vertical"))
            ELSE [dist |-> cur.res.distance, orient |-> "none", cache |-> cur.cache]
    IN  IF isEmpty(piece) \/ piece.owner # player
        THEN [dist |-> Infinity, orient |-> "none", cache |-> cache]
        ELSE Flips(bfs_distance_to_goals_cached(cache, board, start_x, start_y,
                                                goal_cells, player, TRUE))

\* bfs_distance_with_flip: the pair {distance, orientation} and the cache left.
bfs_distance_with_flip(cache, board, start_x, start_y, goal_cells, player) ==
    LET piece == At(board, start_x, start_y)
        Best(cur, h, v) ==
            LET current_dist == cur.res.distance
                dist1 == IF h.res.distance < current_dist
                         THEN h.res.distance ELSE current_dist
                orient1 == IF h.res.distance < current_dist
                           THEN "horizontal" ELSE "none"
            IN  IF v.res.distance < dist1
                THEN [dist |-> v.res.distance, orient |-> "vertical", cache |-> v.cache]
                ELSE [dist |-> dist1, orient |-> orient1, cache |-> v.cache]
        Vertical(cur, h) ==
            Best(cur, h,
                 bfs_distance_to_goals_cached(h.cache,
                     AsRiver(board, start_x, start_y, "vertical"),
                     start_x, start_y, goal_cells, player, TRUE))
        Horizontal(cur) ==
            IF piece.side = "stone"
            THEN Vertical(cur,
                     bfs_distance_to_goals_cached(cur.cache,
                         AsRiver(board, start_x, start_y, "horizontal"),
                         start_x, start_y, goal_cells, player, TRUE))
            ELSE [dist |-> cur.res.distance, orient |-> "none", cache |-> cur.cache]
    IN  IF isEmpty(piece) \/ piece.owner # player
        THEN [dist |-> Infinity, orient |-> "none", cache |-> cache]
        ELSE Horizontal(bfs_distance_to_goals_cached(cache, board, start_x, start_y,
                                                     goal_cells, player, TRUE))

\* ------------------------------------------------------- river opportunities
\* std::sort with "a.value > b.value": by value, largest first (an insertion
\* sort; the lists sorted here hold no two entries the order could swap).
RECURSIVE InsertByValue(_, _, _)
InsertByValue(list, e, k) ==
    IF k > Len(list) THEN Append(list, e)
    ELSE IF XLt(list[k].value, e.value)
    THEN SubSeq(list, 1, k - 1) \o <<e>> \o SubSeq(list, k, Len(list))
    ELSE InsertByValue(list, e, k + 1)

RECURSIVE SortByValue(_)
SortByValue(list) ==
    IF list = <<>> THEN <<>>
    ELSE InsertByValue(SortByValue(SubSeq(list, 1, Len(list) - 1)),
                       list[Len(list)], 1)

\* The stones of `owner` in scan order.
StonesOf(board, owner) ==
    LET st(q) == LET c == At(board, q[1], q[2])
                 IN  ~isEmpty(c) /\ c.owner = owner /\ c.side = "stone"
    IN  SelectSeq(ScanOrder, st)

\* The scan of find_river_creation_opportunities over the agent's stones,
\* from the acc.next-th on.
RECURSIVE OpportunityScan(_, _, _, _)
OpportunityScan(board, player, stones, acc) ==
    LET x == stones[acc.next][1]
        y == stones[acc.next][2]
        my_goals == get_my_goal_cells(player)
        Compare(wf, cur) ==
            LET current_dist == cur.res.distance
                \* dist_with_flip < current_dist - 1, with infinity - 1 = infinity
                better == wf.dist < Infinity
                          /\ (current_dist = Infinity \/ wf.dist < current_dist - 1)
                opp == [action |-> "flip", from_x |-> x, from_y |-> y,
                        orientation |-> wf.orient,
                        value |-> XScale(XSub(DistX(current_dist), DistX(wf.dist)), 10),
                        defensive |-> FALSE]
            IN  OpportunityScan(board, player, stones,
                    [list |-> IF wf.orient # "none" /\ better
                              THEN Append(acc.list, opp) ELSE acc.list,
                     cache |-> cur.cache, next |-> acc.next + 1])
        Current(wf) ==
            Compare(wf, bfs_distance_to_goals_cached(wf.cache, board, x, y, my_goals,
                                                     player, TRUE))
    IN  IF acc.next > Len(stones) THEN acc
        ELSE Current(bfs_distance_with_flip(acc.cache, board, x, y, my_goals, player))

find_river_creation_opportunities(cache, board, player) ==
    LET Sorted(r) == [list |-> SortByValue(r.list), cache |-> r.cache]
    IN  Sorted(OpportunityScan(board, player, StonesOf(board, player),
                               [list |-> <<>>, cache |-> cache, next |-> 1]))

\* ------------------------------------------------------ defensive placements
\* "Find opponent threats": the opponent's stones closer than 6 to their goal.
RECURSIVE ThreatScan(_, _, _, _)
ThreatScan(board, player, stones, acc) ==
    LET k == acc.next
        Threat(q) ==
            ThreatScan(board, player, stones,
                [list |-> IF q.res.distance < 6
                          THEN Append(acc.list,
                                      [x |-> stones[k][1], y |-> stones[k][2],
                                       dist |-> q.res.distance, path |-> q.res.path])
                          ELSE acc.list,
                 cache |-> q.cache, next |-> k + 1])
    IN  IF k > Len(stones) THEN acc
        ELSE Threat(bfs_distance_to_goals_cached(acc.cache, board, stones[k][1],
                        stones[k][2], get_opponent_goal_cells(player),
                        get_opponent(player), TRUE))

\* The loop that sets blocks_us, over the agent's stones from the j-th on.
RECURSIVE BlocksUs(_, _, _, _, _, _)
BlocksUs(cache, board, board_copy, player, stones, j) ==
    LET my_goals == get_my_goal_cells(player)
        Compare(my_before, my_after) ==
            IF my_before.res.distance < Infinity
               /\ my_after.res.distance > my_before.res.distance + 2
            THEN [blocks_us |-> TRUE, cache |-> my_after.cache]
            ELSE BlocksUs(my_after.cache, board, board_copy, player, stones, j + 1)
        After(my_before) ==
            Compare(my_before,
                    bfs_distance_to_goals_cached(my_before.cache, board_copy,
                        stones[j][1], stones[j][2], my_goals, player, TRUE))
    IN  IF j > Len(stones) THEN [blocks_us |-> FALSE, cache |-> cache]
        ELSE After(bfs_distance_to_goals_cached(cache, board, stones[j][1],
                       stones[j][2], my_goals, player, TRUE))

\* The body of "for orient in {horizontal, vertical}" for the stone at p.
DefensiveOrient(board, player, threat, p, orient, acc) ==
    LET board_copy == AsRiver(board, p[1], p[2], orient)
        Decide(new_result, bu) ==
            LET def == [action |-> "flip", from_x |-> p[1], from_y |-> p[2],
                        orientation |-> orient,
                        value |-> XScale(XSub(DistX(new_result.res.distance),
                                              threat.dist), 20),
                        defensive |-> TRUE]
            IN  [acc EXCEPT !.cache = bu.cache,
                            !.list = IF new_result.res.distance > threat.dist + 1
                                        /\ ~bu.blocks_us
                                     THEN Append(@, def) ELSE @]
        Blocks(new_result) ==
            Decide(new_result,
                   BlocksUs(new_result.cache, board, board_copy, player,
                            StonesOf(board, player), 1))
    IN  Blocks(bfs_distance_to_goals_cached(acc.cache, board_copy, threat.x,
                   threat.y, get_opponent_goal_cells(player),
                   get_opponent(player), TRUE))

\* "For each threat, find blocking positions": the inner cells path[1] ..
\* path[size - 2] of the threat's path (0-based), from the i-th (1-based) on.
\* acc.i is the loop index; acc.k is that of the loop over the threats.
RECURSIVE ThreatPath(_, _, _, _)
ThreatPath(board, player, threat, acc) ==
    IF acc.i > Len(threat.path) - 1 THEN acc
    ELSE LET p == threat.path[acc.i]
             cell == At(board, p[1], p[2])
             Step(a) == [a EXCEPT !.i = @ + 1]
         IN  ThreatPath(board, player, threat,
                 IF ~isEmpty(cell) /\ cell.owner = player /\ cell.side = "stone"
                 THEN Step(DefensiveOrient(board, player, threat, p, "vertical",
                          DefensiveOrient(board, player, threat, p, "horizontal", acc)))
                 ELSE Step(acc))

RECURSIVE ThreatLoop(_, _, _, _)
ThreatLoop(board, player, threats, acc) ==
    IF acc.k > Len(threats) THEN acc
    ELSE ThreatLoop(board, player, threats,
                    [ThreatPath(board, player, threats[acc.k],
                                [acc EXCEPT !.i = 2]) EXCEPT !.k = @ + 1])

find_defensive_river_placements(cache, board, player) ==
    LET Sorted(r) == [list |-> SortByValue(r.list), cache |-> r.cache]
        Block(t) ==
            Sorted(ThreatLoop(board, player, t.list,
                              [list |-> <<>>, cache |-> t.cache, k |-> 1, i |-> 2]))
    IN  Block(ThreatScan(board, player, StonesOf(board, get_opponent(player)),
                         [list |-> <<>>, cache |-> cache, next |-> 1]))


\* --------------------------------------------------------------------- choose
MAX_DEPTH == 2
repetition_limit == 2

\* The conversion of the Python board: an empty dict gives Cell(), a dict
\* gives the fields it has.
ConvertCell(cell_dict) ==
    IF DOMAIN cell_dict = {} THEN EmptyCell
    ELSE [owner |-> IF "owner" \in DOMAIN cell_dict THEN cell_dict.owner ELSE "",
          side |-> IF "side" \in DOMAIN cell_dict THEN cell_dict.side ELSE "",
          orientation |-> IF "orientation" \in DOMAIN cell_dict
                          THEN cell_dict.orientation ELSE ""]

ConvertBoard(py_board) ==
    [r \in 1..Rows |-> [c \in 1..Cols |-> ConvertCell(py_board[r][c])]]

\* The locals of choose once the move list is known to be non-empty, before
\* the two strategic scans, with the cache as choose has just cleared it.
ChooseFrame(board, valid_moves) ==
    [cache |-> EmptyCache, board |-> board, valid_moves |-> valid_moves,
     river_opportunities |-> <<>>, defensive_rivers |-> <<>>,
     best_score |-> NegInf, best_moves |-> <<>>, alpha |-> NegInf,
     i |-> 1, new_board |-> board, score |-> 0,
     dist_before |-> NoPath, dist_after |-> NoPath,
     chosen_move |-> <<>>, move_count |-> 0]

\* find_river_creation_opportunities and find_defensive_river_placements,
\* called one after the other; f carries the locals and the cache.
StrategicScans(f, player) ==
    LET Both(ro, dr) ==
            [f EXCEPT !.river_opportunities = ro.list,
                      !.defensive_rivers = dr.list,
                      !.cache = dr.cache]
        Defensive(ro) ==
            Both(ro, find_defensive_river_placements(ro.cache, f.board, player))
    IN  Defensive(find_river_creation_opportunities(f.cache, f.board, player))

\* Root loop, first statement: new_board = apply_move(board, move, ...).
RootApply(f) ==
    LET Bind(am) == [f EXCEPT !.new_board = am.board, !.cache = am.cache]
    IN  Bind(apply_move(f.board, f.valid_moves[f.i], f.cache))

\* Root loop, second statement: score = minimax(new_board, MAX_DEPTH - 1, ...).
RootMinimax(f, player) ==
    LET Bind(r) == [f EXCEPT !.score = r.score, !.cache = r.cache]
    IN  Bind(minimax(f.cache, f.new_board, MAX_DEPTH - 1, f.alpha, PosInf, FALSE,
                     player))

\* The bonus "dist_before == 0 ? 100 : pow(20 - min(dist_after, 20), e) * 500"
StepBonus(before, after, e) ==
    IF before = 0 THEN 1
    ELSE LET n == 20 - Min(after, 20)
         IN  (IF e = 3 THEN n * n * n ELSE n * n) * 5

\* "Extra bonus if move gets us into scoring position"
LadderBonus(before, after, urgency) ==
    IF after = 0 /\ before > 0 THEN 5000000 * urgency
    ELSE IF after = 1 /\ before > 1 THEN 500000 * urgency
    ELSE IF after = 2 /\ before > 2 THEN 100000
    ELSE IF after = 3 /\ before > 3 THEN 10000
    ELSE IF after = 4 /\ before > 4 THEN 1000
    ELSE IF after = 5 /\ before > 5 THEN 100
    ELSE 0

\* The value of the first of the first n entries of list that names the flip.
RECURSIVE FlipValue(_, _, _, _, _)
FlipValue(list, n, move, k, none) ==
    IF k > Min(n, Len(list)) THEN none
    ELSE IF list[k].from_x = move.from_x /\ list[k].from_y = move.from_y
            /\ list[k].orientation = move.orientation
    THEN list[k].value
    ELSE FlipValue(list, n, move, k + 1, none)

\* The tactical bonuses the root loop adds to the score of `move`: the new
\* score, the cache, and the two distances it looked up (NoPath if none).
TacticalBonus(f, player) ==
    LET move == f.valid_moves[f.i]
        board == f.board
        new_board == f.new_board
        my_goals == get_my_goal_cells(player)
        my_score_row == my_goals[1][2]
        urgency == 2 + ScoringStones(new_board, player, my_score_row)
        from_x == move.from_x
        from_y == move.from_y
        piece == At(board, from_x, from_y)
        none == [score |-> f.score, cache |-> f.cache,
                 dist_before |-> NoPath, dist_after |-> NoPath]
        \* dist_before, then dist_after, both through the cache
        Before(at) ==
            bfs_distance_to_goals_cached(at, board, from_x, from_y, my_goals,
                                         player, TRUE)
        After(db) ==
            bfs_distance_to_goals_cached(db.cache, new_board, move.to_x, move.to_y,
                                         my_goals, player, TRUE)
        PushedStone(db, da, push_dist, da2) ==
            [score |-> XAdd(XAdd(f.score, push_dist * 10),
                            IF da2.res.distance < 3 THEN 800 ELSE 0),
             cache |-> da2.cache,
             dist_before |-> db.res, dist_after |-> da.res]
        PushBonus(db, da) ==
            LET push_dist == Abs(move.to_x - move.pushed_x)
                             + Abs(move.to_y - move.pushed_y)
            IN  IF push_dist > 1
                THEN IF is_my_score_cell(move.pushed_x, move.pushed_y, player)
                     THEN [score |-> XAdd(XAdd(f.score, push_dist * 10), 500000),
                           cache |-> da.cache,
                           dist_before |-> db.res, dist_after |-> da.res]
                     ELSE IF ~isEmpty(piece) /\ piece.side = "stone"
                     THEN PushedStone(db, da, push_dist,
                              bfs_distance_to_goals_cached(da.cache, new_board,
                                  move.pushed_x, move.pushed_y, my_goals, player,
                                  TRUE))
                     ELSE [score |-> XAdd(f.score, push_dist * 10),
                           cache |-> da.cache,
                           dist_before |-> db.res, dist_after |-> da.res]
                ELSE [score |-> XAdd(f.score,
                                     StepBonus(db.res.distance, da.res.distance, 2)),
                      cache |-> da.cache,
                      dist_before |-> db.res, dist_after |-> da.res]
        MoveBonus(db, da) ==
            LET improvement == XSub(DistX(db.res.distance), DistX(da.res.distance))
                move_dist == Abs(from_x - move.to_x) + Abs(from_y - move.to_y)
                s1 == IF move_dist > 1
                      THEN XAdd(f.score, XScale(XCube(improvement), 1000))
                      ELSE XAdd(f.score,
                                StepBonus(db.res.distance, da.res.distance, 3))
            IN  [score |-> XAdd(s1, LadderBonus(db.res.distance, da.res.distance,
                                                urgency)),
                 cache |-> da.cache,
                 dist_before |-> db.res, dist_after |-> da.res]
        PushFrom(db) == PushBonus(db, After(db))
        MoveFrom(db) == MoveBonus(db, After(db))
    IN
    IF move.action = "push" /\ "pushed_x" \in DOMAIN move
    THEN PushFrom(Before(f.cache))
    ELSE IF move.action = "move" /\ "to_x" \in DOMAIN move
    THEN IF ~isEmpty(piece) /\ piece.side = "stone"
         THEN MoveFrom(Before(f.cache))
         ELSE none
    ELSE IF move.action = "flip" /\ "orientation" \in DOMAIN move
    THEN LET s1 == XAdd(f.score, FlipValue(f.river_opportunities, 3, move, 1, 0))
             s2 == XAdd(s1, FlipValue(f.defensive_rivers, 4, move, 1, 0))
             s3 == IF ~isEmpty(piece) /\ Abs(from_y - my_score_row) <= 4
                   THEN XAdd(s2, 30) ELSE s2
         IN  [none EXCEPT !.score = s3]
    ELSE IF move.action = "rotate"
    THEN [none EXCEPT !.score = XAdd(f.score, 10)]
    ELSE none

\* "Track best moves" with a better score added to the pool it should replace.
TrackBestKeepsPool(f, move, score, tolerance) ==
    [f EXCEPT !.best_score = IF XLt(f.best_score, score) THEN score ELSE @,
              !.best_moves = IF XLt(f.best_score, score) THEN Append(@, move)
                             ELSE IF XLt(XAbs(XSub(score, f.best_score)), tolerance)
                             THEN Append(@, move) ELSE @,
              !.alpha = XMax(@, score),
              !.i = @ + 1]

\* "Track best moves", "alpha = std::max(alpha, score)" and on to the next
\* move, for the move `move` with the total score `score`; `tolerance` is the
\* 100.0 of "Similar scores" in the unit the scores are held in.
TrackBest(f, move, score, tolerance) ==
    [f EXCEPT !.best_score = IF XLt(f.best_score, score) THEN score ELSE @,
              !.best_moves = IF XLt(f.best_score, score) THEN <<move>>
                             ELSE IF XLt(XAbs(XSub(score, f.best_score)), tolerance)
                             THEN Append(@, move) ELSE @,
              !.alpha = XMax(@, score),
              !.i = @ + 1]

\* Root loop, the rest of the body: bonuses, "track best moves", alpha, and
\* on to the next move.  Scores are held in units of 100, so the tolerance
\* is 1: scores less than 100 apart share one unit.
RootBonus(f, player) ==
    LET Track(t) ==
            TrackBest([f EXCEPT !.score = t.score,
                                !.cache = t.cache,
                                !.dist_before = t.dist_before,
                                !.dist_after = t.dist_after],
                      f.valid_moves[f.i], t.score, 1)
    IN  Track(TacticalBonus(f, player))

\* The root loop from the state f on, for at most n of its iterations.
RECURSIVE RootLoop(_, _, _)
RootLoop(f, player, n) ==
    IF f.i > Len(f.valid_moves) THEN f
    ELSE IF n <= 1 THEN RootBonus(RootMinimax(RootApply(f), player), player)
    ELSE RootLoop(RootLoop(f, player, n \div 2), player, n - (n \div 2))


\* "Choose from best moves" without the preference for river moves.
SelectionPoolPlain(f) ==
    IF f.best_moves # <<>> THEN f.best_moves ELSE f.valid_moves

\* "Choose from best moves": the list the random index is drawn over.
SelectionPool(f) ==
    LET far(m) == /\ m.action \in {"push", "move"}
                  /\ "to_x" \in DOMAIN m /\ "from_x" \in DOMAIN m
                  /\ Abs(m.from_x - m.to_x) + Abs(m.from_y - m.to_y) > 1
        river_moves == SelectSeq(f.best_moves, far)
    IN  IF f.best_moves # <<>>
        THEN (IF river_moves # <<>> THEN river_moves ELSE f.best_moves)
        ELSE f.valid_moves

\* "Compare moves (same action and positions)": past_move against m.
SameMove(past_move, m) ==
    /\ past_move.action = m.action
    /\ past_move.from_x = m.from_x
    /\ past_move.from_y = m.from_y
    /\ ("to_x" \in DOMAIN m =>
           /\ "to_x" \in DOMAIN past_move
           /\ past_move.to_x = m.to_x
           /\ past_move.to_y = m.to_y)
    /\ ("orientation" \in DOMAIN m =>
           /\ "orientation" \in DOMAIN past_move
           /\ past_move.orientation = m.orientation)

\* How many entries of the history are the same as m.
RepetitionCount(history, m) ==
    Count({k \in 1..Len(history) : SameMove(history[k], m)})

\* push_back without the erase that caps the history
PushUncapped(history, m, cap) == Append(history, m)

\* push_back followed by "if size > cap, erase(begin)"
PushCapped(history, m, cap) ==
    LET h == Append(history, m)
    IN  IF Len(h) > cap THEN SubSeq(h, 2, Len(h)) ELSE h

\* The alternatives without the test of their repetition count
AltMovesUnfiltered(history, valid_moves) == valid_moves

\* The alternatives of the repetition avoidance: the valid moves that the
\* history, chosen move included, holds at most repetition_limit times.
AltMoves(history, valid_moves) ==
    LET fresh(m) == RepetitionCount(history, m) <= repetition_limit
    IN  SelectSeq(valid_moves, fresh)

\* "Choose from best moves" and "REPETITION AVOIDANCE" for every value of the
\* random indices (draws): the move the search selected, its count in the
\* history (itself included), the move finally chosen and the history left.
Outcomes(f, history) ==
    LET pool == SelectionPool(f) IN
    UNION {
        LET selected == pool[k]
            h1 == PushCapped(history, selected, 6)
            move_count == RepetitionCount(h1, selected)
            alt_moves == IF move_count > repetition_limit
                         THEN AltMoves(h1, f.valid_moves) ELSE <<>>
        IN  IF alt_moves = <<>>
            THEN {[draws |-> <<k>>, selected |-> selected, move_count |-> move_count,
                   chosen_move |-> selected, last_moves |-> h1]}
            ELSE {[draws |-> <<k, j>>, selected |-> selected, move_count |-> move_count,
                   chosen_move |-> alt_moves[j],
                   last_moves |-> Append(SubSeq(h1, 1, Len(h1) - 1), alt_moves[j])] :
                     j \in 1..Len(alt_moves)}
        : k \in 1..Len(pool)}

\* A fallback that names the action "move", as the sample agent's does
DefaultMoveNamed ==
    [action |-> "move", from_pos |-> <<0, 0>>, to_pos |-> <<0, 0>>,
     pushed_to |-> <<0, 0>>, orientation |-> ""]

\* "Convert to Move struct": fields the map lacks keep the defaults of Move().
DefaultMove ==
    [action |-> "", from_pos |-> <<0, 0>>, to_pos |-> <<0, 0>>,
     pushed_to |-> <<0, 0>>, orientation |-> ""]

ToMove(m) ==
    [action |-> m.action,
     from_pos |-> <<m.from_x, m.from_y>>,
     to_pos |-> IF "to_x" \in DOMAIN m THEN <<m.to_x, m.to_y>> ELSE <<0, 0>>,
     pushed_to |-> IF "pushed_x" \in DOMAIN m THEN <<m.pushed_x, m.pushed_y>>
                   ELSE <<0, 0>>,
     orientation |-> IF "orientation" \in DOMAIN m THEN m.orientation ELSE ""]

\* The opening book of the build for the side it plays: four scripted moves in
\* temp.cpp, none in temp2.cpp (every entry is commented out).
opening_book(build, player) ==
    IF build # "temp.cpp" THEN <<>>
    ELSE IF player = "square"
    THEN << FlipTo(3, 3, "horizontal"), MoveTo(3, 4, <<0, 3>>),
            FlipTo(0, 3, "vertical"), MoveTo(4, 3, <<0, 7>>) >>
    ELSE << FlipTo(3, 9, "horizontal"), MoveTo(3, 8, <<0, 9>>),
            FlipTo(0, 9, "vertical"), MoveTo(4, 9, <<0, 5>>) >>

\* "Simple validation - if move changes board, it's valid"
BookMoveValid(board, candidate) ==
    apply_move(board, candidate, EmptyCache).board # board

\* The locals of choose after the root loop over the moves of `board`.
Searched(player, board) ==
    LET Run(valid_moves) ==
            RootLoop(StrategicScans(ChooseFrame(board, valid_moves), player), player,
                     Len(valid_moves))
    IN  Run(generate_all_valid_moves(board, player))


\* ============================================================ state machines
VARIABLES
    build,        \* the source file the agent was built from
    player,       \* StudentAgent::player, the side the agent plays
    moves,        \* StudentAgent::moves, the opening-book counter
    last_moves,   \* StudentAgent::last_moves, the move history
    cache,        \* GLOBAL_BFS_CACHE
    pc,           \* where the agent is inside choose ("idle" between calls)
    frame,        \* the locals of the running (or last) choose call
    result,       \* the Move the last choose call returned
    calls,        \* how many choose calls the caller has made
    game,         \* a position of a game played with generated moves
    flow,         \* a running get_river_flow_destinations call
    call          \* a call of a function on drawn arguments, and its result

agentVars == <<build, player, moves, last_moves, cache, pc, frame, result, calls>>

vars == <<build, player, moves, last_moves, cache, pc, frame, result, calls, game, flow,
          call>>

\* ------------------------------------------------------------------- pieces
Stone(owner) == [owner |-> owner, side |-> "stone", orientation |-> ""]

River(owner, orient) == [owner |-> owner, side |-> "river", orientation |-> orient]

PieceKinds ==
    {Stone(o) : o \in Players}
    \cup {River(o, d) : o \in Players, d \in {"horizontal", "vertical"}}

\* The board that holds the pieces of `placing`, a function from cells to pieces.
BoardOf(placing) ==
    [r \in 1..Rows |-> [c \in 1..Cols |->
        IF <<c - 1, r - 1>> \in DOMAIN placing THEN placing[<<c - 1, r - 1>>]
        ELSE EmptyCell]]

\* All ways to put at most n pieces of the kinds `kinds` on the cells `cells`.
RECURSIVE Placings(_, _, _)
Placings(cells, kinds, n) ==
    IF n = 0 THEN {<<>>}
    ELSE LET less == Placings(cells, kinds, n - 1)
         IN  less \cup UNION {{(q :> k) @@ pl : k \in kinds,
                                   pl \in {l \in less : q \notin DOMAIN l}} : q \in cells}

\* ------------------------------------------------- a game of generated moves
\* The start positions hold at most MaxPieces pieces, none on a cell forbidden
\* to its owner, on five cells at the left end of the top scoring row or on
\* their mirror images at the bottom scoring row: the first scoring cell
\* (column 4), the two cells left of it and the cells above and below it.
MaxPieces == 2

TopWindow == {<<2, 2>>, <<3, 2>>, <<4, 2>>, <<4, 1>>, <<4, 3>>}

BottomWindow == {<<q[1], Rows - 1 - q[2]>> : q \in TopWindow}

Legal(placing) ==
    \A q \in DOMAIN placing : ~is_opponent_score_cell(q[1], q[2], placing[q].owner)

GameBoards ==
    {BoardOf(pl) : pl \in {l \in Placings(TopWindow, PieceKinds, MaxPieces)
                                 \cup Placings(BottomWindow, PieceKinds, MaxPieces) : Legal(l)}}

NoMove == [action |-> "none"]

NoQuery == [x |-> -1]

\* How many pathfinding queries one run makes, before or after its move.
MaxQueries == 2

\* game = [board, prev, mover, move, query, asked]: the position, the
\* position apply_move was given (the position itself before a move is
\* played), the side that moved and its move, the last pathfinding query made
\* on the position with its answer, and the number of queries made so far.
GameInit ==
    /\ game \in {[board |-> b, prev |-> b, mover |-> "", move |-> NoMove,
                  query |-> NoQuery, asked |-> 0] : b \in GameBoards}
    /\ flow = <<>> /\ call = <<>>
    /\ build = "" /\ player = "" /\ moves = 0 /\ last_moves = <<>>
    /\ cache = EmptyCache /\ pc = "idle" /\ frame = <<>> /\ result = <<>>
    /\ calls = 0

\* The side `side` plays one of the moves generated for it on a start
\* position: apply_move with GLOBAL_BFS_CACHE as the queries have left it.
Play(side) ==
    /\ game.mover = ""
    /\ \E m \in SeqToSet(generate_all_valid_moves(game.board, side)) :
          LET Applied(am) ==
                  /\ game' = [game EXCEPT !.board = am.board, !.prev = game.board,
                                          !.mover = side, !.move = m,
                                          !.query = NoQuery]
                  /\ cache' = am.cache
          IN  Applied(apply_move(game.board, m, cache))
    /\ UNCHANGED <<build, player, moves, last_moves, pc, frame, result, calls, flow, call>>

\* A pathfinding query as evaluate_board makes it: the distance of the stone
\* at (x, y) to the goal cells of its owner, through the cache.
Query(x, y) ==
    /\ game.asked < MaxQueries
    /\ At(game.board, x, y).side = "stone"
    /\ LET owner == At(game.board, x, y).owner
           Answered(q) ==
               /\ game' = [game EXCEPT !.query = [x |-> x, y |-> y, side |-> owner,
                                                  res |-> q.res],
                                       !.asked = @ + 1]
               /\ cache' = q.cache
       IN  Answered(bfs_distance_to_goals_cached(cache, game.board, x, y,
                        get_my_goal_cells(owner), owner, TRUE))
    /\ UNCHANGED <<build, player, moves, last_moves, pc, frame, result, calls, flow, call>>

GameNext ==
    \/ \E side \in Players : Play(side)
    \/ \E q \in AllPos : Query(q[1], q[2])

SpecGame == GameInit /\ [][GameNext]_vars


\* -------------------------------- a get_river_flow_destinations call, stepwise
\* The calls are made on boards with at most MaxFlowPieces stones and rivers
\* on four cells of rows 2 and 3 (of which (4, 2) and (5, 2) are score cells of
\* the top row), for every entry cell among them, every mover position next
\* to the entry cell, both sides and both values of river_push.
MaxFlowPieces == 2

FlowCells == {<<3, 2>>, <<4, 2>>, <<5, 2>>, <<4, 3>>}

FlowKinds == {Stone("circle"), River("circle", "horizontal"), River("square", "vertical")}

FlowCalls ==
    {[board |-> BoardOf(pl), rx |-> r[1], ry |-> r[2],
      sx |-> r[1] + Dirs4[d][1], sy |-> r[2] + Dirs4[d][2],
      player |-> p, river_push |-> rp] :
        pl \in Placings(FlowCells, FlowKinds, MaxFlowPieces), r \in FlowCells, d \in 1..4,
        p \in Players, rp \in BOOLEAN}

NoCall == [pc |-> "idle"]

FlowInit ==
    /\ flow = NoCall
    /\ game = <<>> /\ call = <<>>
    /\ build = "" /\ player = "" /\ moves = 0 /\ last_moves = <<>>
    /\ cache = EmptyCache /\ pc = "idle" /\ frame = <<>> /\ result = <<>>
    /\ calls = 0

\* The call: the arguments are bound and queue, visited and destinations are
\* initialised.
FlowCall ==
    /\ flow.pc = "idle"
    /\ \E c \in FlowCalls :
          flow' = [board |-> c.board, rx |-> c.rx, ry |-> c.ry,
                   sx |-> c.sx, sy |-> c.sy, player |-> c.player,
                   river_push |-> c.river_push,
                   queue |-> FlowStart(c.rx, c.ry).queue,
                   visited |-> FlowStart(c.rx, c.ry).visited,
                   destinations |-> FlowStart(c.rx, c.ry).destinations,
                   pc |-> "loop", out |-> <<>>]
    /\ UNCHANGED <<agentVars, game, call>>

\* One iteration of the loop "while (!queue.empty())".
FlowStep ==
    /\ flow.pc = "loop"
    /\ flow.queue # <<>>
    /\ flow' = FlowIter(flow.board, flow.rx, flow.ry, flow.sx, flow.sy,
                        flow.player, flow.river_push,
                        [queue |-> flow.queue, visited |-> flow.visited,
                         destinations |-> flow.destinations]) @@ flow
    /\ UNCHANGED <<agentVars, game, call>>

\* The loop ends on the empty queue; duplicates are removed and out returned.
FlowReturn ==
    /\ flow.pc = "loop"
    /\ flow.queue = <<>>
    /\ flow' = [flow EXCEPT !.pc = "done",
                            !.out = RemoveDuplicates(flow.destinations)]
    /\ UNCHANGED <<agentVars, game, call>>

FlowNext == FlowCall \/ FlowStep \/ FlowReturn

\* A call that has started takes its steps: nothing in the function waits.
SpecFlow == FlowInit /\ [][FlowNext]_vars /\ WF_vars(FlowStep \/ FlowReturn)

NoDuplicates(list) ==
    \A i, j \in 1..Len(list) : list[i] = list[j] => i = j

\* C6: every call of get_river_flow_destinations, also on river networks with
\* cycles, terminates, and the list it returns holds no position twice.
C6_FlowTerminates ==
    (flow.pc = "loop") ~> (flow.pc = "done" /\ NoDuplicates(flow.out))

\* A call has returned on a board where two rivers flow into each other (each
\* was visited), after collecting some landing cell more than once.
C6_Witness ==
    /\ flow.pc = "done"
    /\ ~NoDuplicates(flow.destinations)
    /\ Cardinality({q \in flow.visited :
                       At(flow.board, q[1], q[2]).side = "river"}) >= 2

\* The cell the call reads for position q: the mover's cell for the entry
\* cell of a river push, the cell at q otherwise.
FlowCellRead(q) ==
    IF flow.river_push /\ q = Position(flow.rx, flow.ry)
    THEN At(flow.board, flow.sx, flow.sy)
    ELSE At(flow.board, q[1], q[2])

FlowDirsOf(q) ==
    IF FlowCellRead(q).orientation = "horizontal"
    THEN {<<1, 0>>, <<-1, 0>>} ELSE {<<0, 1>>, <<0, -1>>}

\* The n cells after q in direction d are all on the board, none is a scoring
\* cell forbidden to the player, and each is empty or the mover's cell.
FlowOpen(q, d, n) ==
    \A k \in 1..n :
        /\ in_bounds(q[1] + k * d[1], q[2] + k * d[2])
        /\ ~is_opponent_score_cell(q[1] + k * d[1], q[2] + k * d[2], flow.player)
        /\ \/ isEmpty(At(flow.board, q[1] + k * d[1], q[2] + k * d[2]))
           \/ (q[1] + k * d[1] = flow.sx /\ q[2] + k * d[2] = flow.sy)

FlowRiversVisited ==
    {q \in flow.visited : in_bounds(q[1], q[2]) /\ FlowCellRead(q).side = "river"}

\* The empty cells a visited river flows to, past the mover's cell and up to
\* the first other occupied cell, the edge or a forbidden scoring cell; and
\* the entry cell itself if it reads as empty.
FlowLandings ==
    {Position(q[1] + n * d[1], q[2] + n * d[2]) :
        <<q, d, n>> \in {t \in FlowRiversVisited \X {<<1, 0>>, <<-1, 0>>, <<0, 1>>, <<0, -1>>}
                                  \X (1..MaxWalk) :
                            /\ t[2] \in FlowDirsOf(t[1])
                            /\ FlowOpen(t[1], t[2], t[3])
                            /\ isEmpty(At(flow.board, t[1][1] + t[3] * t[2][1],
                                          t[1][2] + t[3] * t[2][2]))}}
    \cup {q \in {Position(flow.rx, flow.ry)} :
             /\ isEmpty(FlowCellRead(q))
             /\ ~is_opponent_score_cell(q[1], q[2], flow.player)}

MoverCellOccupied == ~isEmpty(At(flow.board, flow.sx, flow.sy))

\* The arguments are as the callers pass them: the move generator and the
\* BFS enter at a river; a river push enters at the pushed piece, which is not
\* a river, with the pushing river on the mover's cell.
FlowCallAsMade ==
    IF flow.river_push
    THEN /\ At(flow.board, flow.sx, flow.sy).side = "river"
         /\ At(flow.board, flow.rx, flow.ry).side = "stone"
    ELSE At(flow.board, flow.rx, flow.ry).side = "river"

\* C26 (as the code has it): the cells get_river_flow_destinations returns
\* are exactly the empty cells its rivers flow to when the mover's cell is
\* passed over and every other occupied cell, the board edge and a forbidden
\* scoring cell end a direction; for the arguments the callers pass, every
\* returned cell is empty on the board, and the mover's cell is not returned
\* when a piece stands on it.
C26_MoverCellTransparent ==
    flow.pc = "done" =>
        /\ SeqToSet(flow.out) = FlowLandings
        /\ FlowCallAsMade =>
              /\ \A q \in SeqToSet(flow.out) : isEmpty(At(flow.board, q[1], q[2]))
              /\ MoverCellOccupied =>
                    Position(flow.sx, flow.sy) \notin SeqToSet(flow.out)

\* A call has returned a cell behind the mover's occupied cell: the flow of
\* the entry river passed over the mover.
C26_Witness ==
    /\ flow.pc = "done"
    /\ FlowCallAsMade
    /\ MoverCellOccupied
    /\ \E d \in FlowDirsOf(Position(flow.rx, flow.ry)) :
          /\ flow.sx = flow.rx + d[1] /\ flow.sy = flow.ry + d[2]
          /\ FlowCellRead(Position(flow.rx, flow.ry)).side = "river"
          /\ Position(flow.rx + 2 * d[1], flow.ry + 2 * d[2]) \in SeqToSet(flow.out)

\* C26 as stated: the mover's cell is never among the returned cells, whatever
\* the board holds there.
C26_AsStated ==
    (flow.pc = "done" /\ FlowCallAsMade) =>
        /\ \A q \in SeqToSet(flow.out) : isEmpty(At(flow.board, q[1], q[2]))
        /\ Position(flow.sx, flow.sy) \notin SeqToSet(flow.out)


\* ------------------------------------------- bfs_distance_to_goals on a board
\* The calls are made from a stone of the player on one of BfsStarts (of
\* which (4,2) is a goal cell of circle and of the goal row (3,2)..(6,2)), on
\* boards with at most MaxBfsPieces further pieces on BfsCells (stones and
\* rivers of the other side, which may stand on its own scoring cells, and
\* rivers of the player), towards the player's goal cells or the goal row
\* (3,2)..(6,2), with and without rivers.
MaxBfsPieces == 2

BfsStarts == {<<3, 5>>, <<0, 0>>, <<4, 3>>, <<3, 10>>, <<4, 2>>}

BfsCells == {<<1, 0>>, <<0, 1>>, <<3, 4>>, <<3, 3>>, <<4, 4>>, <<4, 10>>}

BfsKinds(side) ==
    {Stone(get_opponent(side)), River(get_opponent(side), "vertical"),
     River(side, "horizontal")}

ScenarioGoals == <<Position(3, 2), Position(4, 2), Position(5, 2), Position(6, 2)>>

BfsCallsOf(p) ==
    {[board |-> Put(BoardOf(pl), st[1], st[2], Stone(p)), start |-> st,
      goal_cells |-> g, player |-> p, use_rivers |-> ur] :
        st \in {q \in BfsStarts : ~is_opponent_score_cell(q[1], q[2], p)},
        g \in {get_my_goal_cells(p), ScenarioGoals}, ur \in BOOLEAN,
        pl \in {l \in Placings(BfsCells, BfsKinds(p), MaxBfsPieces) : Legal(l)}}

BfsCalls == UNION {BfsCallsOf(p) : p \in Players}

BfsInit ==
    /\ call \in {c @@ [done |-> FALSE, res |-> NoPath] : c \in BfsCalls}
    /\ game = <<>> /\ flow = <<>>
    /\ build = "" /\ player = "" /\ moves = 0 /\ last_moves = <<>>
    /\ cache = EmptyCache /\ pc = "idle" /\ frame = <<>> /\ result = <<>>
    /\ calls = 0

\* The call of bfs_distance_to_goals on the drawn arguments.
BfsSearch ==
    /\ ~call.done
    /\ call' = [call EXCEPT !.done = TRUE,
                            !.res = bfs_distance_to_goals(call.board, call.start[1],
                                                          call.start[2], call.goal_cells,
                                                          call.player, call.use_rivers)]
    /\ UNCHANGED <<agentVars, game, flow>>

BfsNext == BfsSearch

SpecBfs == BfsInit /\ [][BfsNext]_vars


\* ------------------------------------------------- evaluate_board on a board
\* The boards hold, on each side's own scoring cells, that side's stones on
\* the leftmost k cells (k from 0 to all of them) or three of its stones and
\* one of its rivers, and at most MaxEvalExtra further pieces on two midfield
\* cells.
MaxEvalExtra == 1

EvalExtraCells == {<<5, 5>>, <<6, 8>>}

RowFills ==
    {[i \in 1..Len(ScoreCols) |-> IF i <= k THEN "stone" ELSE ""] : k \in 0..Len(ScoreCols)}
    \cup {[i \in 1..Len(ScoreCols) |-> IF i = r THEN "river" ELSE "stone"] :
             r \in 1..Len(ScoreCols)}

\* The pieces of `owner` that fill the scoring cells of row `row` as f says.
RowPlacing(f, owner, row) ==
    [q \in {<<ScoreCols[i], row>> : i \in {j \in DOMAIN f : f[j] # ""}} |->
        LET i == CHOOSE j \in DOMAIN f : ScoreCols[j] = q[1]
        IN  IF f[i] = "stone" THEN Stone(owner) ELSE River(owner, "horizontal")]

EvalBoards ==
    {BoardOf(RowPlacing(fc, "circle", top_score_row)
             @@ RowPlacing(fs, "square", bottom_score_row) @@ extra) :
        fc \in RowFills, fs \in RowFills,
        extra \in Placings(EvalExtraCells, PieceKinds, MaxEvalExtra)}

EvalInit ==
    /\ frame \in {[board |-> b] : b \in EvalBoards}
    /\ player \in Players
    /\ pc = "idle"
    /\ result = <<>>
    /\ cache = EmptyCache
    /\ build = "temp2.cpp" /\ moves = 0 /\ last_moves = <<>> /\ calls = 0
    /\ game = <<>> /\ flow = <<>> /\ call = <<>>

\* evaluate_board(board, ...) of the agent playing `player`, on an empty cache.
Evaluate ==
    /\ pc = "idle"
    /\ LET e == evaluate_board(cache, frame.board, player)
       IN  /\ result' = e.score
           /\ cache' = e.cache
    /\ pc' = "evaluated"
    /\ UNCHANGED <<build, player, moves, last_moves, frame, calls, game, flow, call>>

EvalNext == Evaluate

SpecEval == EvalInit /\ [][EvalNext]_vars

\* The stones of `side` on its own scoring cells.
OwnScoring(board, side) ==
    Cardinality({x \in SeqToSet(ScoreCols) :
        At(board, x, IF side = "circle" THEN top_score_row ELSE bottom_score_row)
            = Stone(side)})

Threshold == get_win_count(Rows)

\* C7 (as the code has it): evaluate_board returns the win constant exactly
\* when the acting side has at least the threshold of stones on its own
\* scoring cells, and the loss constant exactly when the opponent has and the
\* acting side has not; on such boards no pathfinding query was made before
\* the check (the cache is as it was).
C7_TerminalScores ==
    pc = "evaluated" =>
        LET mine == OwnScoring(frame.board, player)
            theirs == OwnScoring(frame.board, get_opponent(player))
        IN  /\ result = WIN_SCORE <=> mine >= Threshold
            /\ result = LOSE_SCORE <=> (theirs >= Threshold /\ mine < Threshold)
            /\ (mine >= Threshold \/ theirs >= Threshold) => cache = EmptyCache

\* A board on which both sides have reached the threshold was evaluated.
C7_Witness ==
    /\ pc = "evaluated"
    /\ OwnScoring(frame.board, player) >= Threshold
    /\ OwnScoring(frame.board, get_opponent(player)) >= Threshold
    /\ result = WIN_SCORE

\* C7 as stated: the loss constant is returned exactly when the opponent has
\* reached the threshold, also when both sides have.
C7_AsStated ==
    pc = "evaluated" =>
        LET mine == OwnScoring(frame.board, player)
            theirs == OwnScoring(frame.board, get_opponent(player))
        IN  /\ result = WIN_SCORE <=> mine >= Threshold
            /\ result = LOSE_SCORE <=> theirs >= Threshold

\* The board is lost for the acting side: the opponent has reached the
\* threshold and the acting side has not.
LostBoard ==
    /\ OwnScoring(frame.board, get_opponent(player)) >= Threshold
    /\ OwnScoring(frame.board, player) < Threshold

\* Neither side has reached the threshold.
NonTerminalBoard ==
    /\ OwnScoring(frame.board, get_opponent(player)) < Threshold
    /\ OwnScoring(frame.board, player) < Threshold

\* C24: the value evaluate_board returns for a lost board is the exact
\* negation of the value it returns for a won board (the win constant).
C24_LossIsNegatedWin ==
    (pc = "evaluated" /\ LostBoard) => result = -WIN_SCORE

\* C27: for a board on which neither side has reached the threshold,
\* evaluate_board returns a value strictly between the loss constant and the
\* win constant.
C27_NonTerminalBetween ==
    (pc = "evaluated" /\ NonTerminalBoard) =>
        (LOSE_SCORE < result /\ result < WIN_SCORE)


\* ------------------------------------------- one choose call, step by step
\* The board as the caller passes it: an empty dict for an empty cell, the
\* keys owner and side for a stone, and orientation too for a river.
PyCell(cell) ==
    IF isEmpty(cell) THEN <<>>
    ELSE IF cell.side = "river" THEN cell
    ELSE [owner |-> cell.owner, side |-> cell.side]

PyBoard(board) == [r \in 1..Rows |-> [c \in 1..Cols |-> PyCell(board[r][c])]]

\* The boards hold at most MaxDecisionPieces pieces on three cells of column 5.
MaxDecisionPieces == 2

DecisionCells == {<<5, 4>>, <<5, 5>>, <<5, 6>>}

DecisionBoards ==
    {BoardOf(pl) : pl \in Placings(DecisionCells, PieceKinds, MaxDecisionPieces)}

\* The locals of the running call with the cache, and without it.
Running == [cache |-> cache] @@ frame

Locals(f) == [k \in DOMAIN f \ {"cache"} |-> f[k]]

DecisionInit ==
    /\ \E b \in DecisionBoards : frame = [py_board |-> PyBoard(b)]
    /\ player \in Players
    /\ build = "temp2.cpp"
    /\ moves = 0 /\ last_moves = <<>>
    /\ cache = EmptyCache
    /\ pc = "idle" /\ result = <<>> /\ calls = 0
    /\ game = <<>> /\ flow = <<>> /\ call = <<>>

\* choose up to the two strategic scans: the cache is cleared, the board
\* converted, the (empty) opening book skipped and the moves generated; with
\* no move the call returns Move().
Enter ==
    /\ pc = "idle" /\ calls = 0
    /\ LET board == ConvertBoard(frame.py_board)
           valid_moves == generate_all_valid_moves(board, player)
       IN  IF valid_moves = <<>>
           THEN /\ result' = DefaultMove
                /\ calls' = calls + 1
                /\ UNCHANGED <<pc, frame>>
           ELSE /\ frame' = Locals(ChooseFrame(board, valid_moves))
                /\ pc' = "scans"
                /\ UNCHANGED <<result, calls>>
    /\ cache' = EmptyCache
    /\ UNCHANGED <<build, player, moves, last_moves, game, flow, call>>

Scans ==
    /\ pc = "scans"
    /\ LET f == StrategicScans(Running, player)
       IN  frame' = Locals(f) /\ cache' = f.cache
    /\ pc' = "root"
    /\ UNCHANGED <<build, player, moves, last_moves, result, calls, game, flow, call>>

Apply ==
    /\ pc = "root" /\ frame.i <= Len(frame.valid_moves)
    /\ LET f == RootApply(Running)
       IN  frame' = Locals(f) /\ cache' = f.cache
    /\ pc' = "applied"
    /\ UNCHANGED <<build, player, moves, last_moves, result, calls, game, flow, call>>

Search ==
    /\ pc = "applied"
    /\ LET f == RootMinimax(Running, player)
       IN  frame' = Locals(f) /\ cache' = f.cache
    /\ pc' = "searched"
    /\ UNCHANGED <<build, player, moves, last_moves, result, calls, game, flow, call>>

Bonus ==
    /\ pc = "searched"
    /\ LET f == RootBonus(Running, player)
       IN  frame' = Locals(f) /\ cache' = f.cache
    /\ pc' = "root"
    /\ UNCHANGED <<build, player, moves, last_moves, result, calls, game, flow, call>>

\* After the last root move: selection, repetition avoidance, conversion.
\* `selected` keeps chosen_move as it was before "REPETITION AVOIDANCE".
Return ==
    /\ pc = "root" /\ frame.i > Len(frame.valid_moves)
    /\ \E o \in Outcomes(frame, last_moves) :
          /\ frame' = [selected |-> o.selected]
                       @@ [frame EXCEPT !.chosen_move = o.chosen_move,
                                        !.move_count = o.move_count]
          /\ last_moves' = o.last_moves
          /\ result' = ToMove(o.chosen_move)
    /\ pc' = "idle"
    /\ calls' = calls + 1
    /\ UNCHANGED <<build, player, moves, cache, game, flow, call>>

DecisionNext == Enter \/ Scans \/ Apply \/ Search \/ Bonus \/ Return

SpecDecision == DecisionInit /\ [][DecisionNext]_vars


\* C8: the score minimax returns for the root's board, depth and bounds does
\* not depend on what the earlier calls of the decision have left in the
\* pathfinding cache: it is the score the same call returns on an empty cache.
C8_ScoreIgnoresCache ==
    pc = "applied" =>
        minimax(cache, frame.new_board, MAX_DEPTH - 1, frame.alpha, PosInf, FALSE,
                player).score
        = minimax(EmptyCache, frame.new_board, MAX_DEPTH - 1, frame.alpha, PosInf, FALSE,
                  player).score

\* C9: with the bounds of the root loop (alpha the best root score so far,
\* tactical bonuses included, beta = +infinity) minimax returns the value of
\* the search of the same depth without the cut-off "beta <= alpha".
C9_PruningKeepsValue ==
    pc = "applied" =>
        minimax(cache, frame.new_board, MAX_DEPTH - 1, frame.alpha, PosInf, FALSE,
                player).score
        = ExhaustiveMinimax(cache, frame.new_board, MAX_DEPTH - 1, frame.alpha, PosInf,
                            FALSE, player).score


\* ------------------------------------------ the strategic scans of one call
\* choose up to its two strategic scans, on boards of at most MaxScanPieces
\* pieces on three cells: a cell of row 6 from which a stone walks four
\* steps to either goal row, the cell two columns to its left, from which a
\* horizontal river flows into it, and a cell two rows above the bottom goal
\* row.
MaxScanPieces == 3

ScanCells == {<<3, 6>>, <<5, 6>>, <<7, 8>>}

ScanBoards ==
    {BoardOf(pl) : pl \in Placings(ScanCells, PieceKinds, MaxScanPieces)}

ScansInit ==
    /\ \E b \in ScanBoards : frame = [py_board |-> PyBoard(b)]
    /\ player \in Players
    /\ build = "temp2.cpp"
    /\ moves = 0 /\ last_moves = <<>>
    /\ cache = EmptyCache
    /\ pc = "idle" /\ result = <<>> /\ calls = 0
    /\ game = <<>> /\ flow = <<>> /\ call = <<>>

ScansNext == Enter \/ Scans

SpecScans == ScansInit /\ [][ScansNext]_vars

\* The distance of the stone on q to the agent's goal, searched afresh on the
\* board, and on the board with the stone flipped to a river.
FreshDistance(board, q) ==
    bfs_distance_to_goals(board, q[1], q[2], get_my_goal_cells(player), player,
                          TRUE).distance

FreshFlipDistance(q, orient) ==
    FreshDistance(AsRiver(frame.board, q[1], q[2], orient), q)

\* A flip of the agent's stone on q shortens its way by more than one hop.
RealOpportunity(q) ==
    \E orient \in {"horizontal", "vertical"} :
        FreshFlipDistance(q, orient) < FreshDistance(frame.board, q) - 1

OpponentThreat(q) ==
    bfs_distance_to_goals(frame.board, q[1], q[2], get_opponent_goal_cells(player),
                          get_opponent(player), TRUE).distance < 6

\* C30: after the two scans that choose makes right after it has cleared the
\* cache, the list of river-creation opportunities and the list of defensive
\* river placements are both empty, so no flip matches an entry of either.
C30_ScansReturnNothing ==
    pc = "root" =>
        /\ frame.river_opportunities = <<>>
        /\ frame.defensive_rivers = <<>>

\* The scans have run on a board on which a flip of an own stone shortens its
\* way from four hops to two, and an opponent stone stands two hops from its
\* goal.
C30_Witness ==
    /\ pc = "root"
    /\ \E q \in SeqToSet(StonesOf(frame.board, player)) : RealOpportunity(q)
    /\ \E q \in SeqToSet(StonesOf(frame.board, get_opponent(player))) : OpponentThreat(q)
    /\ frame.river_opportunities = <<>>


\* ------------------------------------ the end of choose on given total scores
\* "Track best moves" and what follows it, run on three root moves of a stone
\* on (5,5) (a step, a river-assisted move over three cells and a flip) whose
\* total scores are drawn from TotalScores, here in units of 1, so that two
\* scores can be less than the tolerance of 100 apart; the history holds
\* nothing or one of the three moves twice.
TotalScores == {0, 60, 120}

SelectionMoves ==
    << MoveTo(5, 5, <<5, 4>>), MoveTo(5, 5, <<5, 8>>), FlipTo(5, 5, "horizontal") >>

SelectionHistories ==
    {<<>>} \cup {<<SelectionMoves[k], SelectionMoves[k]>> : k \in DOMAIN SelectionMoves}

SelectionInit ==
    /\ call \in {[scores |-> sc] : sc \in [DOMAIN SelectionMoves -> TotalScores]}
    /\ last_moves \in SelectionHistories
    /\ frame = Locals(ChooseFrame(EmptyBoard, SelectionMoves))
    /\ player \in Players
    /\ build = "temp2.cpp"
    /\ moves = 0 /\ cache = EmptyCache
    /\ pc = "root" /\ result = <<>> /\ calls = 0
    /\ game = <<>> /\ flow = <<>>

\* The end of one iteration of the root loop, for the total score drawn for
\* the move.
Track ==
    /\ pc = "root" /\ frame.i <= Len(frame.valid_moves)
    /\ frame' = TrackBest([frame EXCEPT !.score = call.scores[frame.i]],
                          frame.valid_moves[frame.i], call.scores[frame.i], 100)
    /\ UNCHANGED <<build, player, moves, last_moves, cache, pc, result, calls, game, flow,
                   call>>

SelectionNext == Track \/ Return

SpecSelection == SelectionInit /\ [][SelectionNext]_vars

\* The total score drawn for a root move, and the highest of the first n.
ScoreOf(m) == call.scores[CHOOSE k \in DOMAIN SelectionMoves : SelectionMoves[k] = m]

HighestOf(n) == CHOOSE h \in {call.scores[k] : k \in 1..n} :
                    \A k \in 1..n : call.scores[k] <= h

\* The moves of s at the indices in S, in the order of s.
Picked(s, S) ==
    LET at(k) == k \in S
        kept == SelectSeq([k \in 1..Len(s) |-> k], at)
    IN  [j \in 1..Len(kept) |-> s[kept[j]]]

Scored == frame.i - 1

AllScored == pc = "root" /\ frame.i > Len(frame.valid_moves)

WithinTolerance(n) == {k \in 1..n : HighestOf(n) - call.scores[k] < 100}

FirstHighest(n) == CHOOSE k \in 1..n : /\ call.scores[k] = HighestOf(n)
                                       /\ \A j \in 1..(k - 1) : call.scores[j] < HighestOf(n)

\* C21 (amended): after any number of root moves have been scored, best_score
\* is the highest total score so far and the tie pool holds, in scoring
\* order, the first move that attained it followed by the moves scored after
\* that one whose total score is less than 100 below it; a move within the
\* tolerance that was scored before the first highest move is not in the pool.
C21_TiePoolRunningBest ==
    (pc = "root" /\ Scored >= 1) =>
        /\ frame.best_score = HighestOf(Scored)
        /\ frame.best_moves =
               Picked(frame.valid_moves,
                      {k \in WithinTolerance(Scored) : k >= FirstHighest(Scored)})

\* All moves scored, and one within the tolerance was scored before the best.
C21_Witness ==
    /\ AllScored
    /\ \E k \in WithinTolerance(Scored) : k < FirstHighest(Scored)
    /\ Len(frame.best_moves) = 2

\* C21 as stated: the pool is exactly the moves within 100 of the highest
\* total score, whatever the scoring order.
C21_AsStated ==
    AllScored =>
        SeqToSet(frame.best_moves) = {frame.valid_moves[k] : k \in WithinTolerance(Scored)}

Returned == pc = "idle" /\ calls = 1

FarMove(m) ==
    /\ m.action \in {"move", "push"}
    /\ Abs(m.from_x - m.to_x) + Abs(m.from_y - m.to_y) > 1

\* C22: the move selected before the repetition avoidance is a member of the
\* tie pool, and it is a move or push over more than one cell (Manhattan
\* distance) whenever the tie pool holds such a move.
C22_SelectedFromPool ==
    Returned =>
        /\ frame.selected \in SeqToSet(frame.best_moves)
        /\ (\E m \in SeqToSet(frame.best_moves) : FarMove(m)) => FarMove(frame.selected)

\* The pool holds the far move and another move, and the far move is selected.
C22_Witness ==
    /\ Returned
    /\ Len(frame.best_moves) >= 2
    /\ FarMove(frame.selected)
    /\ \E m \in SeqToSet(frame.best_moves) : ~FarMove(m)

\* Without a far move in the pool every member of the pool can be selected.
C22_AnyMember ==
    /\ Returned
    /\ Len(frame.best_moves) = 2
    /\ \A m \in SeqToSet(frame.best_moves) : ~FarMove(m)
    /\ frame.selected = frame.best_moves[2]

\* C29 (amended): a returned move that the repetition avoidance did not
\* replace has a total score less than 100 below the best total score; when
\* the selected move is in the history more than repetition_limit times
\* (itself included) and some valid move is not, the returned move is any
\* valid move that is not, whatever its total score.
C29_ReturnedMove ==
    [][(pc = "root" /\ pc' = "idle") =>
          LET h1 == PushCapped(last_moves, frame'.selected, 6)
              chosen == frame'.chosen_move
          IN  IF RepetitionCount(h1, frame'.selected) > repetition_limit
                 /\ \E m \in SeqToSet(frame.valid_moves) :
                        RepetitionCount(h1, m) <= repetition_limit
              THEN /\ chosen \in SeqToSet(frame.valid_moves)
                   /\ RepetitionCount(h1, chosen) <= repetition_limit
              ELSE /\ chosen = frame'.selected
                   /\ HighestOf(Len(frame.valid_moves)) - ScoreOf(chosen) < 100]_vars

\* A replaced move: the move returned scores 120 below the best.
C29_Witness ==
    /\ Returned
    /\ frame.chosen_move # frame.selected
    /\ frame.move_count > repetition_limit
    /\ HighestOf(Len(frame.valid_moves)) - ScoreOf(frame.chosen_move) = 120

\* C29 as stated: every returned move is within 100 of the best total score.
C29_AsStated ==
    Returned => HighestOf(Len(frame.valid_moves)) - ScoreOf(frame.chosen_move) < 100


\* ------------------------------------------------------ a session of decisions
\* The caller asks one agent for at most MaxSessionCalls decisions, each on
\* one of three boards: the empty board (the agent has no move), a board
\* where the agent's only stone is walled into the corner (0,0) by four
\* stones of the opponent (its moves are the two flips), and a board that
\* holds a stone of the opponent on each origin of the two opening-book
\* moves of temp.cpp (the agent has no move).  The time arguments and
\* avoid_repeat vary from call to call.  The agent is built from temp2.cpp,
\* from temp.cpp or from the sample agent student_agent.cpp.
MaxSessionCalls == 7

Builds == {"temp2.cpp", "temp.cpp", "student_agent.cpp"}

Walled(side) ==
    BoardOf((<<0, 0>> :> Stone(side)) @@
            [q \in {<<1, 0>>, <<2, 0>>, <<0, 1>>, <<0, 2>>} |-> Stone(get_opponent(side))])

BookBoard(side) ==
    BoardOf([q \in {<<m.from_x, m.from_y>> :
                        m \in {n \in SeqToSet(opening_book("temp.cpp", side)) :
                                  n.action = "move"}} |-> Stone(get_opponent(side))])

SessionBoards(side) == {EmptyBoard, Walled(side), BookBoard(side)}

SessionArgs ==
    {[current_player_time |-> 60, opponent_time |-> 60, avoid_repeat |-> FALSE],
     [current_player_time |-> 1, opponent_time |-> 45, avoid_repeat |-> TRUE]}

\* The locals after the root loop.  The search reads the side and the
\* board only: a session holds in `call` the outcome of the search on the one
\* board of the session with moves to search, and it is looked up there.
\* temp.cpp scores the moves with an evaluate_board of its own (temp.cpp
\* 681-856), which is left open: its best_moves is empty here, so that every
\* generated move may be selected, and its cache is not tracked.
SearchFrame(bld, side, board) ==
    IF bld = "temp.cpp"
    THEN ChooseFrame(board, generate_all_valid_moves(board, side))
    ELSE IF call # <<>> /\ call.side = side /\ call.board = board THEN call.searched
    ELSE Searched(side, board)

\* student_agent.cpp, the sample agent: the moves it collects for its piece
\* on (x, y), read from the board as passed (a cell is a map, empty for an
\* empty cell).  Its Move holds vectors: `pushed_to` is empty unless the move
\* is a push, and `to` of a flip or rotate is the cell itself.
SamplePieceMoves(py_board, x, y, side) ==
    LET cell_at(q) == py_board[q[2] + 1][q[1] + 1]
        empty(q) == DOMAIN cell_at(q) = {}
        next(d) == <<x + Dirs4[d][1], y + Dirs4[d][2]>>
        beyond(d) == <<x + 2 * Dirs4[d][1], y + 2 * Dirs4[d][2]>>
        SampleMove(action, to, pushed_to, orientation) ==
            [action |-> action, from_pos |-> <<x, y>>, to_pos |-> to,
             pushed_to |-> pushed_to, orientation |-> orientation]
        can_move(d) == in_bounds(next(d)[1], next(d)[2]) /\ empty(next(d))
        can_push(d) ==
            /\ in_bounds(next(d)[1], next(d)[2])
            /\ in_bounds(beyond(d)[1], beyond(d)[2])
            /\ ~empty(next(d)) /\ cell_at(next(d)).owner # side
            /\ empty(beyond(d))
        Moves(ds) == [k \in 1..Len(ds) |-> SampleMove("move", next(ds[k]), <<>>, "")]
        Pushes(ds) ==
            [k \in 1..Len(ds) |-> SampleMove("push", next(ds[k]), beyond(ds[k]), "")]
    IN  Moves(SelectSeq(<<1, 2, 3, 4>>, can_move))
        \o Pushes(SelectSeq(<<1, 2, 3, 4>>, can_push))
        \o (IF cell_at(<<x, y>>).side = "stone"
             THEN <<SampleMove("flip", <<x, y>>, <<>>, "horizontal"),
                    SampleMove("flip", <<x, y>>, <<>>, "vertical")>>
             ELSE <<>>)
        \o (IF cell_at(<<x, y>>).side = "river"
             THEN <<SampleMove("rotate", <<x, y>>, <<>>, "")>>
             ELSE <<>>)

RECURSIVE SampleFrom(_, _, _, _)
SampleFrom(py_board, side, cells, i) ==
    IF i > Len(cells) THEN <<>>
    ELSE SamplePieceMoves(py_board, cells[i][1], cells[i][2], side)
         \o SampleFrom(py_board, side, cells, i + 1)

\* The list `moves` of the sample agent's choose
SampleMoves(py_board, side) ==
    LET mine(q) == /\ DOMAIN py_board[q[2] + 1][q[1] + 1] # {}
                   /\ py_board[q[2] + 1][q[1] + 1].owner = side
    IN  SampleFrom(py_board, side, SelectSeq(ScanOrder, mine), 1)

\* The fallback of the sample agent: {"move", {0,0}, {0,0}, {}, ""}
SampleFallback ==
    [action |-> "move", from_pos |-> <<0, 0>>, to_pos |-> <<0, 0>>,
     pushed_to |-> <<>>, orientation |-> ""]

\* choose of the sample agent: a random one of its moves, or the fallback.
\* The sample agent keeps no history, no counter and no cache.
SampleOutcomes(side, book_moves, history, py_board) ==
    LET Drawn(list) ==
            IF list = <<>>
            THEN {[draws |-> <<>>, selected |-> <<>>, path |-> "fallback", result |-> SampleFallback,
                   moves |-> book_moves, last_moves |-> history, cache |-> EmptyCache]}
            ELSE {[draws |-> <<k>>, selected |-> <<>>, path |-> "sample", result |-> list[k],
                   moves |-> book_moves, last_moves |-> history, cache |-> EmptyCache] :
                     k \in 1..Len(list)}
    IN  Drawn(SampleMoves(py_board, side))

\* choose, for every value of the random indices: the Move returned and the
\* agent's fields and the cache as the call leaves them.  `path` names the
\* way the call took.
ChooseOutcomes(bld, side, book_moves, history, py_board) ==
    IF bld = "student_agent.cpp" THEN SampleOutcomes(side, book_moves, history, py_board)
    ELSE
    LET board == ConvertBoard(py_board)
        book == opening_book(bld, side)
        Booked(candidate) ==
            {[draws |-> <<>>, selected |-> <<>>, path |-> "book", result |-> ToMove(candidate),
              moves |-> book_moves + 1,
              last_moves |-> PushCapped(history, candidate, 3),
              cache |-> apply_move(board, candidate, EmptyCache).cache]}
        Selected(f) ==
            {[draws |-> o.draws, selected |-> o.selected,
              path |-> IF o.chosen_move = o.selected THEN "searched" ELSE "substituted",
              result |-> ToMove(o.chosen_move),
              moves |-> book_moves,
              last_moves |-> o.last_moves,
              cache |-> f.cache] : o \in Outcomes(f, history)}
    IN  IF book_moves < Len(book) /\ BookMoveValid(board, book[book_moves + 1])
        THEN Booked(book[book_moves + 1])
        ELSE IF generate_all_valid_moves(board, side) = <<>>
        THEN {[draws |-> <<>>, selected |-> <<>>, path |-> "fallback", result |-> DefaultMove,
               moves |-> book_moves, last_moves |-> history, cache |-> EmptyCache]}
        ELSE Selected(SearchFrame(bld, side, board))

\* choose with a deadline: with less than five seconds left the first
\* generated move is returned at once.
choose_under_deadline(bld, side, book_moves, history, py_board, current_player_time, opponent_time, avoid_repeat) ==
    IF current_player_time < 5 /\ generate_all_valid_moves(ConvertBoard(py_board), side) # <<>>
    THEN {[draws |-> <<>>, selected |-> <<>>, path |-> "deadline",
           result |-> ToMove(generate_all_valid_moves(ConvertBoard(py_board), side)[1]),
           moves |-> book_moves, last_moves |-> history, cache |-> EmptyCache]}
    ELSE ChooseOutcomes(bld, side, book_moves, history, py_board)

\* StudentAgent::choose: current_player_time, opponent_time and avoid_repeat
\* are not read.
choose(bld, side, book_moves, history, py_board, current_player_time, opponent_time, avoid_repeat) ==
    ChooseOutcomes(bld, side, book_moves, history, py_board)

NoFrame == [path |-> "none"]

SessionInit ==
    /\ build \in Builds
    /\ player \in Players
    /\ moves = 0 /\ last_moves = <<>>
    /\ cache = EmptyCache
    /\ pc = "idle" /\ frame = NoFrame /\ result = <<>> /\ calls = 0
    /\ call = [side |-> player, board |-> Walled(player),
               searched |-> Searched(player, Walled(player))]
    /\ game = <<>> /\ flow = <<>>

\* One call of choose, from its entry to its return.
Choose(board, args) ==
    /\ calls < MaxSessionCalls
    /\ \E o \in choose(build, player, moves, last_moves, PyBoard(board),
                        args.current_player_time, args.opponent_time, args.avoid_repeat) :
          /\ result' = o.result
          /\ moves' = o.moves
          /\ last_moves' = o.last_moves
          /\ cache' = o.cache
          /\ frame' = [path |-> o.path, draws |-> o.draws, selected |-> o.selected,
                       board |-> board, args |-> args,
                       moves_before |-> moves, history_before |-> last_moves]
    /\ calls' = calls + 1
    /\ UNCHANGED <<build, player, pc, game, flow, call>>

SessionNext == \E b \in SessionBoards(player), a \in SessionArgs : Choose(b, a)

SpecSession == SessionInit /\ [][SessionNext]_vars


\* The cell (x, y) is on the board and forbidden to the pieces of `side`.
Forbidden(x, y, side) == in_bounds(x, y) /\ is_opponent_score_cell(x, y, side)

\* C1: no move generated for a side has a move destination, a push target
\* cell or a push landing cell that is forbidden to that side, and after a
\* generated move has been applied to a position with no piece on a cell
\* forbidden to its owner, no piece of the mover stands on a cell forbidden
\* to the mover.
C1_GeneratorSound ==
    /\ \A side \in Players :
          \A m \in SeqToSet(generate_all_valid_moves(game.board, side)) :
             /\ "to_x" \in DOMAIN m => ~Forbidden(m.to_x, m.to_y, side)
             /\ "pushed_x" \in DOMAIN m => ~Forbidden(m.pushed_x, m.pushed_y, side)
    /\ game.mover # "" =>
          \A q \in AllPos :
             (~isEmpty(At(game.board, q[1], q[2]))
              /\ At(game.board, q[1], q[2]).owner = game.mover)
             => ~Forbidden(q[1], q[2], game.mover)

\* A generated move or push has been applied and has put the mover's piece
\* next to an empty cell that is forbidden to the mover.
C1_Witness ==
    /\ game.mover # ""
    /\ "to_x" \in DOMAIN game.move
    /\ \E d \in 1..4 :
          LET nx == game.move.to_x + Dirs4[d][1]
              ny == game.move.to_y + Dirs4[d][2]
          IN  Forbidden(nx, ny, game.mover) /\ isEmpty(At(game.board, nx, ny))

\* ------------------------------------------------ claims on generated moves
\* The index sets of the moves generated for `side` that satisfy a test.
Gen(side) == generate_all_valid_moves(game.board, side)

OwnStones(side) ==
    {q \in AllPos : At(game.board, q[1], q[2]).side = "stone"
                    /\ At(game.board, q[1], q[2]).owner = side}

Neighbour(q, d) == Position(q[1] + Dirs4[d][1], q[2] + Dirs4[d][2])

EmptyAt(q) == in_bounds(q[1], q[2]) /\ isEmpty(At(game.board, q[1], q[2]))

\* The cells strictly between two cells of one row.
Between(a, b) ==
    {Position(x, a[2]) : x \in (Min(a[1], b[1]) + 1)..(Max(a[1], b[1]) - 1)}

\* A horizontal river stands on the cell r.
HorizontalRiver(r) ==
    /\ in_bounds(r[1], r[2])
    /\ At(game.board, r[1], r[2]).side = "river"
    /\ At(game.board, r[1], r[2]).orientation = "horizontal"

\* The cells of the row of r that are empty, not forbidden to side and
\* separated from r by empty cells only.
AlongRiver(r, side) ==
    {c \in AllPos : /\ c[2] = r[2] /\ c[1] # r[1]
                    /\ EmptyAt(c) /\ ~Forbidden(c[1], c[2], side)
                    /\ \A b \in Between(r, c) : EmptyAt(b)}

\* The single steps of the stone at q: its empty neighbours not forbidden to side.
StepsOf(q, side) ==
    {Neighbour(q, d) : d \in {e \in 1..4 : /\ EmptyAt(Neighbour(q, e))
                                             /\ ~Forbidden(Neighbour(q, e)[1],
                                                           Neighbour(q, e)[2], side)}}

\* C12 as stated: for an own stone next to a horizontal river, the generated
\* moves hold a move of the stone to every empty, non-forbidden cell of the
\* river's row that only empty cells separate from the river, and a move to
\* every empty non-forbidden neighbour of the stone.
C12_AsStated ==
    \A side \in Players : \A q \in OwnStones(side) : \A d \in 1..4 :
        HorizontalRiver(Neighbour(q, d)) =>
            \A c \in AlongRiver(Neighbour(q, d), side) \cup StepsOf(q, side) :
                MoveTo(q[1], q[2], c) \in SeqToSet(Gen(side))

\* C12 (amended): the same when the river does not stand on a cell forbidden
\* to the mover and the cells between the river and the landing cell are,
\* besides empty, not forbidden to the mover either.
C12_FlowMoves ==
    \A side \in Players : \A q \in OwnStones(side) : \A d \in 1..4 :
        LET r == Neighbour(q, d) IN
        (HorizontalRiver(r) /\ ~Forbidden(r[1], r[2], side)) =>
            \A c \in {e \in AlongRiver(r, side) :
                         \A b \in Between(r, e) : ~Forbidden(b[1], b[2], side)}
                     \cup StepsOf(q, side) :
                MoveTo(q[1], q[2], c) \in SeqToSet(Gen(side))

\* A start position in which a stone stands next to a horizontal river and
\* the generated moves take it two or more cells along the river's row.
C12_Witness ==
    /\ game.mover = ""
    /\ \E side \in Players : \E q \in OwnStones(side) : \E d \in 1..4 :
          LET r == Neighbour(q, d) IN
          /\ HorizontalRiver(r) /\ ~Forbidden(r[1], r[2], side)
          /\ \E c \in AlongRiver(r, side) :
                /\ Abs(c[1] - r[1]) >= 2
                /\ MoveTo(q[1], q[2], c) \in SeqToSet(Gen(side))

\* The pushes generated for side from the cell q onto the cell t.
PushesOnto(side, q, t) ==
    {m \in SeqToSet(Gen(side)) : /\ m.action = "push"
                                 /\ m.from_x = q[1] /\ m.from_y = q[2]
                                 /\ m.to_x = t[1] /\ m.to_y = t[2]}

\* A piece that is no river stands on the cell t, which is not forbidden to side.
PushableBy(t, side) ==
    /\ in_bounds(t[1], t[2]) /\ ~EmptyAt(t)
    /\ At(game.board, t[1], t[2]).side # "river"
    /\ ~Forbidden(t[1], t[2], side)

CellsOf(m) ==
    {Position(m.from_x, m.from_y)}
    \cup (IF "to_x" \in DOMAIN m THEN {Position(m.to_x, m.to_y)} ELSE {})
    \cup (IF "pushed_x" \in DOMAIN m THEN {Position(m.pushed_x, m.pushed_y)} ELSE {})

\* C14: the board apply_move returns differs from the board it was given in
\* at most the origin, destination and push-landing cell of the move.
C14_FrameOfApplyMove ==
    game.mover # "" =>
        \A q \in AllPos \ CellsOf(game.move) :
            At(game.board, q[1], q[2]) = At(game.prev, q[1], q[2])

\* A push has been applied and has changed all three cells it names.
C14_Witness ==
    /\ game.mover # "" /\ game.move.action = "push"
    /\ Cardinality({q \in AllPos : At(game.board, q[1], q[2])
                                      # At(game.prev, q[1], q[2])}) = 3

\* The move just applied is a flip, a rotate or a push made by a river.
ClearingMove ==
    /\ game.mover # ""
    /\ \/ game.move.action \in {"flip", "rotate"}
       \/ /\ game.move.action = "push"
          /\ At(game.prev, game.move.from_x, game.move.from_y).side = "river"

\* C18: when apply_move returns from a flip, a rotate or a push made by a
\* river, the pathfinding cache is empty (no query has been made since).
C18_ClearingMoves == (ClearingMove /\ game.query = NoQuery) => cache = EmptyCache

\* A rotate applied after a query had stored an entry in the cache.
C18_Witness ==
    /\ ClearingMove /\ game.move.action = "rotate"
    /\ game.asked >= 1 /\ game.query = NoQuery
    /\ cache = EmptyCache

\* C19: every push generated for a side displaces a piece of the other side.
C19_PushesOpponentOnly ==
    \A side \in Players : \A m \in SeqToSet(Gen(side)) :
        m.action = "push" => At(game.board, m.to_x, m.to_y).owner = get_opponent(side)

\* The number of moves generated for side from the cell q that pass `test`.
HowMany(side, q, test(_)) ==
    LET g == Gen(side)
    IN  Cardinality({i \in 1..Len(g) : /\ g[i].from_x = q[1] /\ g[i].from_y = q[2]
                                       /\ test(g[i])})

IsRotate(m) == m.action = "rotate"

IsFlip(m) == m.action = "flip"

IsFlipHorizontal(m) ==
    m.action = "flip" /\ "orientation" \in DOMAIN m /\ m.orientation = "horizontal"

IsFlipVertical(m) ==
    m.action = "flip" /\ "orientation" \in DOMAIN m /\ m.orientation = "vertical"

IsFlipBack(m) == m.action = "flip" /\ "orientation" \notin DOMAIN m

\* C20: for every piece of the moving side the generated moves hold, if it is
\* a stone, exactly two flips, one horizontal and one vertical, and no rotate;
\* if it is a river, exactly one flip, without orientation, and one rotate.
C20_FlipsAndRotates ==
    \A side \in Players : \A q \in AllPos :
        LET p == At(game.board, q[1], q[2]) IN
        (~isEmpty(p) /\ p.owner = side) =>
            IF p.side = "stone"
            THEN /\ HowMany(side, q, IsFlip) = 2
                 /\ HowMany(side, q, IsFlipHorizontal) = 1
                 /\ HowMany(side, q, IsFlipVertical) = 1
                 /\ HowMany(side, q, IsRotate) = 0
            ELSE /\ HowMany(side, q, IsFlip) = 1
                 /\ HowMany(side, q, IsFlipBack) = 1
                 /\ HowMany(side, q, IsRotate) = 1

\* A start position with a stone next to a river of its own side: both
\* kinds of piece, the stone with an occupied neighbour.
C20_Witness ==
    /\ game.mover = ""
    /\ \E side \in Players : \E q \in OwnStones(side) : \E d \in 1..4 :
          LET r == Neighbour(q, d) IN
          /\ in_bounds(r[1], r[2])
          /\ At(game.board, r[1], r[2]).side = "river"
          /\ At(game.board, r[1], r[2]).owner = side
          /\ HowMany(side, r, IsRotate) = 1

\* Every occupied cell of the board has an orientation exactly when it is a
\* river, and a river's orientation is horizontal or vertical.
OrientationIffRiver(board) ==
    \A q \in AllPos :
        LET c == At(board, q[1], q[2]) IN
        ~isEmpty(c) =>
            IF c.side = "river" THEN c.orientation \in {"horizontal", "vertical"}
            ELSE c.orientation = ""

\* The piece the move just applied was made with, and what stands on its
\* origin cell now.
MovedPiece == At(game.prev, game.move.from_x, game.move.from_y)

AtOrigin == At(game.board, game.move.from_x, game.move.from_y)

\* C25: a generated move applied to a board on which every occupied cell has
\* an orientation exactly when it is a river gives such a board again: the
\* flip of a stone sets the orientation the move names, the flip of a river
\* clears it, a rotate toggles it, and a river that pushes stands on the
\* target cell as a stone without orientation.
C25_OrientationIffRiver ==
    /\ OrientationIffRiver(game.prev) => OrientationIffRiver(game.board)
    /\ (game.mover # "" /\ game.move.action = "flip" /\ MovedPiece.side = "stone") =>
          AtOrigin = River(MovedPiece.owner, game.move.orientation)
    /\ (game.mover # "" /\ game.move.action = "flip" /\ MovedPiece.side = "river") =>
          AtOrigin = Stone(MovedPiece.owner)
    /\ (game.mover # "" /\ game.move.action = "rotate") =>
          /\ AtOrigin.side = "river"
          /\ AtOrigin.orientation # MovedPiece.orientation
    /\ (game.mover # "" /\ game.move.action = "push" /\ MovedPiece.side = "river") =>
          At(game.board, game.move.to_x, game.move.to_y) = Stone(MovedPiece.owner)

\* A river has pushed a piece and stands on the target cell as a stone.
C25_Witness ==
    /\ game.mover # "" /\ game.move.action = "push"
    /\ MovedPiece.side = "river"
    /\ At(game.board, game.move.to_x, game.move.to_y) = Stone(game.mover)
    /\ OrientationIffRiver(game.board)

\* The number of pieces of `owner` on the board.
PieceCount(board, owner) ==
    Cardinality({q \in AllPos : At(board, q[1], q[2]).owner = owner})

BoardChanged == game.mover # "" /\ game.board # game.prev

\* C5: when apply_move returns a board that differs from the one it was
\* given, the pathfinding cache is empty (no query has been made since).
C5_CacheEmptyAfterChange ==
    (BoardChanged /\ game.query = NoQuery) => cache = EmptyCache

\* The answer of the last query computed without the cache, on the board as
\* it is.
FreshAnswer ==
    bfs_distance_to_goals(game.board, game.query.x, game.query.y,
                          get_my_goal_cells(game.query.side), game.query.side, TRUE)

\* C4: a query answered through the cache gives the distance the uncached
\* search gives for the same board, start, goals and side, whatever moves and
\* queries came before it.
C4_CachedEqualsFresh ==
    game.query # NoQuery => game.query.res.distance = FreshAnswer.distance

\* ---------------------------------------------------------- shortest hop counts
\* The cells one hop from q, in the words of the specification: the empty,
\* not opponent-forbidden orthogonal neighbours of q and, with rivers in
\* use, the flow destinations of the rivers on orthogonal neighbours of q.
\* With river_cells_checked only rivers that stand on a cell that is not
\* opponent-forbidden are flowed through.
HopsFrom(board, q, side, use_rivers, river_cells_checked) ==
    LET adj == {n \in {Neighbour(q, d) : d \in 1..4} : in_bounds(n[1], n[2])}
        steps == {n \in adj : /\ isEmpty(At(board, n[1], n[2]))
                              /\ ~is_opponent_score_cell(n[1], n[2], side)}
        rivers == {n \in adj : /\ At(board, n[1], n[2]).side = "river"
                               /\ (river_cells_checked
                                      => ~is_opponent_score_cell(n[1], n[2], side))}
        flows == UNION {SeqToSet(get_river_flow_destinations(board, n[1], n[2], q[1], q[2],
                                                             side, FALSE)) : n \in rivers}
    IN  IF use_rivers THEN steps \cup flows ELSE steps

\* The least number of hops from a cell of `frontier` (the cells exactly k
\* hops from the start) to a cell of `goals`, plus k; Infinity if there is none.
RECURSIVE HopLayers(_, _, _, _, _, _, _, _)
HopLayers(board, goals, side, use_rivers, river_cells_checked, reached, frontier, k) ==
    LET Advance(next) ==
            HopLayers(board, goals, side, use_rivers, river_cells_checked,
                      reached \cup next, next, k + 1)
    IN  IF frontier \cap goals # {} THEN k
        ELSE IF frontier = {} THEN Infinity
        ELSE Advance(UNION {HopsFrom(board, q, side, use_rivers, river_cells_checked) :
                               q \in frontier} \ reached)

HopDistance(board, start, goal_cells, side, use_rivers, river_cells_checked) ==
    HopLayers(board, SeqToSet(goal_cells), side, use_rivers, river_cells_checked,
              {start}, {start}, 0)

Adjacent(a, b) == Abs(a[1] - b[1]) + Abs(a[2] - b[2]) = 1

NoRiver(board) == \A q \in AllPos : At(board, q[1], q[2]).side # "river"

\* C11: on a board without rivers bfs_distance_to_goals returns the length of
\* a shortest path of orthogonal steps over empty, not opponent-forbidden
\* cells from the start to a goal cell; when a goal is reachable the returned
\* path has distance + 1 positions, begins with the start, ends in a goal
\* cell and steps between orthogonal neighbours; a single stone at (3,5) with
\* goals (3,2)..(6,2) gives distance 3 and a path of 4 positions.
C11_ShortestPath ==
    (call.done /\ NoRiver(call.board)) =>
        LET res == call.res
            reference == HopDistance(call.board, call.start, call.goal_cells, call.player,
                                     FALSE, FALSE)
        IN  /\ res.distance = reference
            /\ reference # Infinity =>
                  /\ Len(res.path) = res.distance + 1
                  /\ res.path[1] = call.start
                  /\ res.path[Len(res.path)] \in SeqToSet(call.goal_cells)
                  /\ \A i \in 1..(Len(res.path) - 1) : Adjacent(res.path[i], res.path[i + 1])
            /\ (/\ call.start = <<3, 5>>
                /\ call.goal_cells = ScenarioGoals
                /\ call.board = Put(EmptyBoard, 3, 5, Stone(call.player)))
               => (res.distance = 3 /\ Len(res.path) = 4)

\* The search has returned on a board without rivers where a stone stands in
\* the straight line to the nearest goal cell, so that the shortest path
\* goes around it.
C11_Witness ==
    /\ call.done /\ NoRiver(call.board)
    /\ call.start = <<3, 5>> /\ call.goal_cells = ScenarioGoals
    /\ At(call.board, 3, 4).side = "stone"
    /\ call.res.distance = 5

\* C17 as stated: with use_rivers set the distance returned is the least
\* number of hops, a flow through any orthogonally adjacent river being one
\* hop, and it is infinity with an empty path exactly if no goal is reachable.
C17_AsStated ==
    (call.done /\ call.use_rivers) =>
        LET Same(reference) ==
                /\ call.res.distance = reference
                /\ (call.res.distance = Infinity /\ call.res.path = <<>>)
                      <=> reference = Infinity
        IN  Same(HopDistance(call.board, call.start, call.goal_cells, call.player,
                             TRUE, FALSE))

\* C17: with use_rivers set the distance returned is the least number of
\* hops, where one hop is a step onto an orthogonally adjacent empty cell
\* that is not opponent-forbidden, or a flow through a river on an
\* orthogonally adjacent cell that is not opponent-forbidden to any cell of
\* its flow destinations; infinity with an empty path is returned exactly if
\* no goal is reachable by such hops.
C17_HopDistance ==
    (call.done /\ call.use_rivers) =>
        LET Same(reference) ==
                /\ call.res.distance = reference
                /\ (call.res.distance = Infinity /\ call.res.path = <<>>)
                      <=> reference = Infinity
        IN  Same(HopDistance(call.board, call.start, call.goal_cells, call.player,
                             TRUE, TRUE))

\* The search has returned a distance that a flow makes shorter than the
\* shortest path of steps.
C17_Witness ==
    /\ call.done /\ call.use_rivers
    /\ call.res.distance < HopDistance(call.board, call.start, call.goal_cells,
                                        call.player, FALSE, FALSE)
    /\ call.res.distance >= 2

\* ------------------------------------------------------- claims on a session
\* The outcome of the last call, as a record comparable with those of choose.
LastOutcome ==
    [draws |-> frame.draws, selected |-> frame.selected, path |-> frame.path,
     result |-> result, moves |-> moves,
     last_moves |-> last_moves, cache |-> cache]

\* C15: current_player_time, opponent_time and avoid_repeat have no influence
\* on a decision: the call just made, repeated from the same agent state on
\* the same board with the same random draws but any other values of the
\* three arguments, returns the same move and leaves the same agent state.
C15_TimeArgumentsUnused ==
    calls > 0 =>
        \A a \in SessionArgs :
            LastOutcome \in choose(build, player, frame.moves_before, frame.history_before,
                                   PyBoard(frame.board), a.current_player_time,
                                   a.opponent_time, a.avoid_repeat)

\* A decision in which the repetition avoidance replaced the selected move
\* has been made with one second left and avoid_repeat set.
C15_Witness ==
    /\ calls > 1
    /\ frame.path = "substituted"
    /\ frame.args.current_player_time = 1 /\ frame.args.avoid_repeat

\* C16: after any sequence of choose calls of an agent that keeps a move
\* history (temp2.cpp, temp.cpp) the history holds at most 6 entries, and a
\* call that returned a move other than the fallback has left that move as
\* the last entry of the history.
C16_HistoryCapped ==
    build \in {"temp2.cpp", "temp.cpp"} =>
    /\ Len(last_moves) <= 6
    /\ (calls > 0 /\ frame.path # "fallback") =>
          /\ last_moves # <<>>
          /\ ToMove(last_moves[Len(last_moves)]) = result

\* The seventh decision, a substituted one, has been made with six entries
\* in the history.
C16_Witness ==
    /\ calls = MaxSessionCalls
    /\ Len(last_moves) = 6
    /\ frame.path = "substituted"
    /\ Len(frame.history_before) = 6

\* The moves generated for the agent on the board of the last call.
LegalMoves == generate_all_valid_moves(frame.board, player)

\* C2 (temp2.cpp and temp.cpp): whenever the agent has a legal move on the
\* board it is given, the Move returned is one of the moves that
\* generate_all_valid_moves returns for the board and the agent's side.
C2_ReturnsLegalMove ==
    (calls > 0 /\ build \in {"temp2.cpp", "temp.cpp"} /\ LegalMoves # <<>>) =>
        result \in {ToMove(m) : m \in SeqToSet(LegalMoves)}

\* The agent had no legal move in the last call, and no opening-book move
\* was played.
NoLegalMove ==
    /\ calls > 0 /\ frame.path # "book"
    /\ IF build = "student_agent.cpp"
       THEN SampleMoves(PyBoard(frame.board), player) = <<>>
       ELSE LegalMoves = <<>>

\* C3 as stated: with no legal move and no opening-book move played, choose
\* returns the default-constructed Move and leaves history and counter.
C3_AsStated ==
    NoLegalMove =>
        /\ result = DefaultMove
        /\ last_moves = frame.history_before /\ moves = frame.moves_before

\* C3: with no legal move and no opening-book move played, choose of
\* temp2.cpp and temp.cpp returns the default-constructed Move (empty action,
\* from = to = pushed_to = (0,0), empty orientation) and choose of the sample
\* agent returns its fixed fallback (action "move", from = to = (0,0), no
\* pushed_to, empty orientation); the move history and the opening-book
\* counter are left unchanged.
C3_Fallback ==
    NoLegalMove =>
        /\ result = IF build = "student_agent.cpp"
                    THEN [action |-> "move", from_pos |-> <<0, 0>>, to_pos |-> <<0, 0>>,
                          pushed_to |-> <<>>, orientation |-> ""]
                    ELSE [action |-> "", from_pos |-> <<0, 0>>, to_pos |-> <<0, 0>>,
                          pushed_to |-> <<0, 0>>, orientation |-> ""]
        /\ last_moves = frame.history_before /\ moves = frame.moves_before

\* A fallback has been returned after decisions that filled the history and
\* advanced the opening-book counter.
C3_Witness ==
    /\ NoLegalMove /\ frame.path = "fallback"
    /\ build = "temp.cpp" /\ moves > 0 /\ Len(last_moves) > 1

\* The history with the selected move appended, as the repetition count reads it.
CountedHistory == PushCapped(frame.history_before, frame.selected, 6)

\* C10: if the move the search selected occurs more than repetition_limit
\* times in the last 6 history entries, itself included, and some legal move
\* of the board has a strictly lower count, the move returned is not the
\* over-repeated one.
C10_AvoidsRepetition ==
    (/\ calls > 0 /\ frame.path \in {"searched", "substituted"}
     /\ RepetitionCount(CountedHistory, frame.selected) > repetition_limit
     /\ \E m \in SeqToSet(LegalMoves) :
            RepetitionCount(CountedHistory, m)
                < RepetitionCount(CountedHistory, frame.selected))
    => /\ result # ToMove(frame.selected)
       /\ ~SameMove(last_moves[Len(last_moves)], frame.selected)

\* The search of temp2.cpp has selected a move for the fourth time within
\* the last six decisions and another move was returned.
C10_Witness ==
    /\ build = "temp2.cpp" /\ frame.path = "substituted"
    /\ RepetitionCount(frame.history_before, frame.selected) >= 2
    /\ calls >= 4

\* The opening-book entry the last call found at the counter.
BookCandidate == opening_book(build, player)[frame.moves_before + 1]

\* C23: in a session of the agent built from temp.cpp, a decision that plays
\* an opening-book move adds exactly one to the counter and leaves a history
\* of at most 3 entries that ends with that move; any other decision leaves
\* the counter as it was; the counter never exceeds the length of the book,
\* and once it has reached it no decision plays a book move.
C23_BookCounterAndHistory ==
    (calls > 0 /\ build = "temp.cpp") =>
        /\ frame.path = "book" =>
              /\ moves = frame.moves_before + 1
              /\ Len(last_moves) <= 3
              /\ last_moves[Len(last_moves)] = BookCandidate
              /\ result = ToMove(BookCandidate)
        /\ frame.path # "book" => moves = frame.moves_before
        /\ moves <= Len(opening_book(build, player))
        /\ frame.moves_before >= Len(opening_book(build, player)) => frame.path # "book"

====
